---- MODULE Spec2Model ----
(***************************************************************************)
(* Audio feature extraction and beat detection of the visualizer.          *)
(*                                                                         *)
(* Numbers.  The source computes in IEEE doubles; the model computes the   *)
(* same expressions in exact rational arithmetic over integers:            *)
(*   - a band value (bass, mids, highs) is an integer b standing for       *)
(*     b / 255, the value of a band whose bins all hold the byte b;        *)
(*   - a composite energy is an integer e standing for e / EnergyUnit;     *)
(*   - a timestamp is an integer number of milliseconds;                   *)
(*   - a quotient is a record [n |-> numerator, d |-> denominator]; the    *)
(*     two results of a division by zero are kept as 0/0 (NaN) and 1/0     *)
(*     (Infinity).                                                         *)
(* Comparisons are cross-multiplied, so no rounding takes place.           *)
(***************************************************************************)
EXTENDS Integers, Sequences, FiniteSets, TLC

VARIABLES
    energyHistory,   \* FFTAnalyzer.energyHistory
    beatHistory,     \* FFTAnalyzer.beatHistory
    lastBeatTime,    \* FFTAnalyzer.lastBeatTime
    clock,           \* the value performance.now() returns
    result,          \* the BeatDetectionResult of the latest analyzeBeat call
    lastFrame,       \* the latest call: its inputs and the fields before it
    flagged,         \* the timestamps of the beats flagged since construction or reset()
    fresh,           \* a second FFTAnalyzer, constructed anew at every reset()
    freshResult,     \* the BeatDetectionResult that second analyzer returned
    discarded,       \* the fields the latest reset() cleared
    frames,          \* analyzeBeat calls since construction or reset()
    totalFrames,     \* analyzeBeat calls of the run
    wasReset,        \* whether reset() was called in the run
    script,          \* the inputs of the two latest frames
    signal,          \* the periodic test signal fed to the detector, if any
    frequencyData,   \* the SpectralFrame handed to the band splitter
    bands,           \* the latest output of a band splitter, and whose it is
    timeDomainData,  \* the WaveformFrame handed to getZeroCrossingRate
    features,        \* the latest output of a spectral feature function
    currentType,     \* VisualizerScene.currentType
    time,            \* VisualizerScene.time, in frame intervals
    resources,       \* the scene's resources: bars, waveformLine, ..., grid, sun
    camera,          \* what set the camera position last
    constructions,   \* how often each resource has been constructed
    constructedFor,  \* the type each resource was constructed for, if any
    lastUpdate,      \* the latest update call: its input, its path, its reads
    viewport,        \* camera aspect, projection matrix, renderer and composer size
    canvas,          \* what the latest render call drew
    visualizerType,  \* App's state: the type handed to the Visualizer
    mounted,         \* whether the Visualizer's effects have run
    origin,          \* the type at the start of the current run of presses
    visited,         \* the types seen since then
    presses,         \* mode button presses of the run, and KeyV presses so far
    isReady,         \* audioContextManager.isReady
    isPlaying,       \* state.isPlaying
    isDemoMode,      \* the hook's isDemoMode
    currentTrack,    \* state.currentTrack: "none", "file" or "demo"
    published,       \* the hook's audioData state: 0 for null, else a frame number
    audioDataRef,    \* audioDataRef.current of the Visualizer that has one
    variant,         \* which Visualizer component is mounted
    ticks,           \* display-refresh ticks so far
    lastTick,        \* the latest tick: its calls in order, the frame update got
    tracked,         \* how many of the particles the model follows
    positionsY,      \* their Y coordinates, in units of 1 / PositionUnit
    playlist,        \* state.playlist: the ids of its tracks in order
    currentId,       \* the id of state.currentTrack when it is a file, else 0
    issued,          \* how many track ids addToPlaylist has made
    element,         \* the audio element: paused, and its events not yet fired
    timers,          \* the ids of the live setInterval timers
    demoIntervalRef, \* demoIntervalRef.current: a timer id, or 0 for null
    lastBeat,        \* the latest scheduleBeat call
    closure,         \* what the handlers of the latest render have captured
    handler          \* the handler that ran last

detectorVars == <<energyHistory, beatHistory, lastBeatTime, clock, result,
                  lastFrame, flagged, fresh, freshResult, discarded, frames,
                  totalFrames, wasReset, script, signal>>

splitterVars == <<frequencyData, bands>>

featureVars == <<timeDomainData, features>>

sceneVars == <<currentType, time, resources, camera, constructions,
               constructedFor, lastUpdate, viewport, canvas>>

appVars == <<visualizerType, mounted, origin, visited, presses>>

playerVars == <<isReady, isPlaying, isDemoMode, currentTrack, published,
                audioDataRef, variant, ticks, lastTick>>

particleVars == <<tracked, positionsY>>

mediaVars == <<playlist, currentId, issued, element, timers,
               demoIntervalRef, lastBeat, closure, handler>>

vars == <<detectorVars, splitterVars, featureVars, sceneVars, appVars,
          playerVars, particleVars, mediaVars>>

----------------------------------------------------------------------------
(* Program constants *)

beatThresholdTenths == 13
beatMinHundredths == 15
historySize == 43
minBeatInterval == 200
beatHistorySize == 10
MaxByte == 255
EnergyUnit == 10 * MaxByte
minBpm == 60
maxBpm == 200
msPerMinute == 60 * 1000
intensityFloorHundredths == 1
defaultPercentage == 85
center == 128
barCount == 64
waveformPoints == 256
particleCount == 5000
halfRange == 25

(* Bounds of the model *)

FreeFrames == 2
ResetFrames == 4
MaxFrames == 46
PeriodicFrames == 190
MaxPhase == 16
MaxBins == 9
MaxSamples == 6
MaxLength == 3
MaxSceneTime == 3

\* A run whose beats stop: driven frames that alternate loud and silent, then
\* free frames up to FadeFrames.
DrivenFrames == 7
FadeFrames == 10

\* The analyzeBeat calls of a run that interleaves the feature functions.
PureCalls == 3

\* The presses of the mode button in one run, and the KeyV presses.
MaxPresses == 12

\* The display-refresh ticks of a run.
MaxTicks == 4

\* The particles the model follows, and the updates of a run that moves them.
MaxParticles == 2
ParticleFrames == 3

\* A Y coordinate is a whole number of 1 / PositionUnit: (value - 0.5) * 0.5
\* is (2 * byte - 255) * 2 of them and 0.1 is 204 of them.
PositionUnit == 8 * MaxByte

\* The Y coordinate NaN
NaNPosition == 100 * PositionUnit

----------------------------------------------------------------------------
(* Helpers *)

RECURSIVE SumSeq(_)
SumSeq(s) == IF s = <<>> THEN 0 ELSE Head(s) + SumSeq(Tail(s))

\* Math.floor in place of Math.round
MathFloor(n, d) == n \div d

\* Math.round of the positive quotient n / d: floor(n / d + 1/2)
MathRound(n, d) == (2 * n + d) \div (2 * d)

----------------------------------------------------------------------------
(* FFTAnalyzer *)

\* the fields of a newly constructed FFTAnalyzer
NewAnalyzer == [energyHistory |-> <<>>, beatHistory |-> <<>>, lastBeatTime |-> 0]

\* bass * 0.6 + mids * 0.3 + highs * 0.1, in units of 1 / EnergyUnit
currentEnergy(audioData) ==
    audioData.bass * 6 + audioData.mids * 3 + audioData.highs * 1

\* pop() in place of shift(): the newest entry goes, not the oldest
pushEnergyPop(history, energy) ==
    LET pushed == Append(history, energy)
    IN  IF Len(pushed) > historySize THEN SubSeq(pushed, 1, historySize) ELSE pushed

\* energyHistory.push(currentEnergy), then shift() when over historySize
pushEnergy(history, energy) ==
    LET pushed == Append(history, energy)
    IN  IF Len(pushed) > historySize THEN Tail(pushed) ELSE pushed

\* the push without the shift()
pushBeatUnbounded(history, now) == Append(history, now)

\* beatHistory.push(now), then shift() when over 10 entries
pushBeat(history, now) ==
    LET pushed == Append(history, now)
    IN  IF Len(pushed) > beatHistorySize THEN Tail(pushed) ELSE pushed

\* currentEnergy >= averageEnergy: a threshold of 1, the mean included
overMean(energy, window) == energy * Len(window) >= SumSeq(window)

\* currentEnergy > averageEnergy * beatThreshold, where averageEnergy is
\* the sum of the window divided by its length
overThreshold(energy, window) ==
    energy * 10 * Len(window) > SumSeq(window) * beatThresholdTenths

\* currentEnergy > beatMin
overFloor(energy) == energy * 100 > beatMinHundredths * EnergyUnit

\* >= in place of >
debouncedInclusive(now, last) == now - last >= minBeatInterval

\* now - lastBeatTime > minBeatInterval
debounced(now, last) == now - last > minBeatInterval

\* the detection without the absolute floor
detectBeatNoFloor(energy, window, now, last) ==
    /\ overThreshold(energy, window)
    /\ debounced(now, last)

detectBeat(energy, window, now, last) ==
    /\ overThreshold(energy, window)
    /\ overFloor(energy)
    /\ debounced(now, last)

\* the loop of calculateBPM: the sum of beats[i] - beats[i - 1] for i >= 1
RECURSIVE totalInterval(_)
totalInterval(beats) ==
    IF Len(beats) < 2 THEN 0
    ELSE (beats[2] - beats[1]) + totalInterval(Tail(beats))

\* the mean taken over the number of beats, not of intervals
calculateBPMOverLength(beats) ==
    IF Len(beats) < 3 THEN 0
    ELSE LET total == totalInterval(beats)
             gaps  == Len(beats)
         IN  IF total > 0
             THEN IF msPerMinute * gaps >= maxBpm * total THEN maxBpm
                  ELSE IF msPerMinute * gaps <= minBpm * total THEN minBpm
                  ELSE MathRound(msPerMinute * gaps, total)
             ELSE 0

calculateBPM(beats) ==
    IF Len(beats) < 3 THEN 0
    ELSE LET total == totalInterval(beats)
             gaps  == Len(beats) - 1
         IN  \* averageInterval = total / gaps; bpm = 60000 / averageInterval
             IF total > 0
             THEN IF msPerMinute * gaps >= maxBpm * total THEN maxBpm
                  ELSE IF msPerMinute * gaps <= minBpm * total THEN minBpm
                  ELSE MathRound(msPerMinute * gaps, total)
             ELSE 0

\* currentEnergy / averageEnergy, without the Math.max
beatIntensityNoFloor(energy, window) ==
    [n |-> energy * Len(window), d |-> SumSeq(window)]

\* currentEnergy / Math.max(averageEnergy, 0.01)
beatIntensity(energy, window) ==
    IF SumSeq(window) * 100 >= intensityFloorHundredths * EnergyUnit * Len(window)
    THEN [n |-> energy * Len(window), d |-> SumSeq(window)]
    ELSE [n |-> energy * 100, d |-> intensityFloorHundredths * EnergyUnit]

\* a beat history that lets its oldest beat go on every frame without a beat
recordBeatOrExpire(history, isBeat, now) ==
    IF isBeat THEN pushBeat(history, now)
    ELSE IF history = <<>> THEN history ELSE Tail(history)

\* if (isBeat) { beatHistory.push(now); ... }: the beat history afterwards
recordBeat(history, isBeat, now) ==
    IF isBeat THEN pushBeat(history, now) ELSE history

\* a timestamp taken on every frame
stampEveryFrame(last, isBeat, now) == now

\* if (isBeat) { ...; this.lastBeatTime = now }: lastBeatTime afterwards
stampBeat(last, isBeat, now) == IF isBeat THEN now ELSE last

\* analyzeBeat with the intensity taken over the window before the push
analyzeBeatBaselineBefore(a, audioData, now) ==
    LET energy == currentEnergy(audioData)
        window == pushEnergy(a.energyHistory, energy)
        isBeat == detectBeat(energy, window, now, a.lastBeatTime)
        beats  == recordBeat(a.beatHistory, isBeat, now)
    IN  [fields |-> [energyHistory |-> window,
                     beatHistory   |-> beats,
                     lastBeatTime  |-> stampBeat(a.lastBeatTime, isBeat, now)],
         result |-> [isBeat        |-> isBeat,
                     beatIntensity |-> beatIntensity(energy, a.energyHistory),
                     bpm           |-> calculateBPM(beats)]]

\* analyzeBeat on an analyzer with fields a, when performance.now() is now:
\* the fields afterwards and the result returned
analyzeBeat(a, audioData, now) ==
    LET energy == currentEnergy(audioData)
        window == pushEnergy(a.energyHistory, energy)
        isBeat == detectBeat(energy, window, now, a.lastBeatTime)
        beats  == recordBeat(a.beatHistory, isBeat, now)
    IN  [fields |-> [energyHistory |-> window,
                     beatHistory   |-> beats,
                     lastBeatTime  |-> stampBeat(a.lastBeatTime, isBeat, now)],
         result |-> [isBeat        |-> isBeat,
                     beatIntensity |-> beatIntensity(energy, window),
                     bpm           |-> calculateBPM(beats)]]

\* a reset() that leaves lastBeatTime alone
resetKeepsLastBeat(a) ==
    [energyHistory |-> <<>>, beatHistory |-> <<>>, lastBeatTime |-> a.lastBeatTime]

\* reset(): the fields afterwards
reset(a) == [energyHistory |-> <<>>, beatHistory |-> <<>>, lastBeatTime |-> 0]

----------------------------------------------------------------------------
(* Band splitters *)

\* x / y in the source: a quotient [n, d]; 0 / 0 is NaN and x / 0 (x > 0) is
\* Infinity, kept as the records 0/0 and 1/0
quotient(n, d) ==
    IF d = 0 THEN [n |-> IF n = 0 THEN 0 ELSE 1, d |-> 0] ELSE [n |-> n, d |-> d]

\* q / 256 in place of q / 255
over256(q) == [n |-> q.n, d |-> q.d * (MaxByte + 1)]

\* q / 255 of a quotient q (NaN / 255 is NaN, Infinity / 255 is Infinity)
over255(q) == [n |-> q.n, d |-> q.d * MaxByte]

\* the loop with i <= bassEnd in place of i < bassEnd
RECURSIVE bandsLoopInclusive(_, _, _, _, _)
bandsLoopInclusive(data, i, bassEnd, midsEnd, sums) ==
    IF i < Len(data)
    THEN LET value == data[i + 1]
         IN  bandsLoopInclusive(data, i + 1, bassEnd, midsEnd,
                 [total    |-> sums.total + value,
                  bassSum  |-> IF i <= bassEnd THEN sums.bassSum + value
                               ELSE sums.bassSum,
                  midsSum  |-> IF i <= bassEnd THEN sums.midsSum
                               ELSE IF i < midsEnd THEN sums.midsSum + value
                               ELSE sums.midsSum,
                  highsSum |-> IF i <= bassEnd THEN sums.highsSum
                               ELSE IF i < midsEnd THEN sums.highsSum
                               ELSE sums.highsSum + value])
    ELSE sums

\* the for loop of AudioContextManager.calculateBands from index i on;
\* data[i + 1] is the source's frequencyData[i]
RECURSIVE bandsLoop(_, _, _, _, _)
bandsLoop(data, i, bassEnd, midsEnd, sums) ==
    IF i < Len(data)
    THEN LET value == data[i + 1]
         IN  bandsLoop(data, i + 1, bassEnd, midsEnd,
                 [total    |-> sums.total + value,
                  bassSum  |-> IF i < bassEnd THEN sums.bassSum + value
                               ELSE sums.bassSum,
                  midsSum  |-> IF i < bassEnd THEN sums.midsSum
                               ELSE IF i < midsEnd THEN sums.midsSum + value
                               ELSE sums.midsSum,
                  highsSum |-> IF i < bassEnd THEN sums.highsSum
                               ELSE IF i < midsEnd THEN sums.highsSum
                               ELSE sums.highsSum + value])
    ELSE sums

NoSums == [total |-> 0, bassSum |-> 0, midsSum |-> 0, highsSum |-> 0]

\* AudioContextManager.calculateBands
calculateBands(data) ==
    LET bufferLength == Len(data)
        bassEnd == bufferLength \div 8
        midsEnd == bufferLength \div 2
        sums    == bandsLoop(data, 0, bassEnd, midsEnd, NoSums)
    IN  [bass    |-> over255(quotient(sums.bassSum, bassEnd)),
         mids    |-> over255(quotient(sums.midsSum, midsEnd - bassEnd)),
         highs   |-> over255(quotient(sums.highsSum, bufferLength - midsEnd)),
         average |-> over255(quotient(sums.total, bufferLength))]

\* a loop that never adds frequencyData[0]
RECURSIVE sumLoopFromOne(_, _, _)
sumLoopFromOne(data, i, end) ==
    IF i < end
    THEN (IF i = 0 THEN 0 ELSE data[i + 1]) + sumLoopFromOne(data, i + 1, end)
    ELSE 0

\* a loop "for (let i = start; i < end; i++) sum += frequencyData[i]" of
\* AudioProcessor
RECURSIVE sumLoop(_, _, _)
sumLoop(data, i, end) ==
    IF i < end THEN data[i + 1] + sumLoop(data, i + 1, end) ELSE 0

\* AudioProcessor.calculateFrequencyBands
calculateFrequencyBands(data) ==
    LET bufferLength == Len(data)
        bassEnd    == bufferLength \div 8
        midsStart  == bassEnd
        midsEnd    == bufferLength \div 2
        highsStart == midsEnd
    IN  [bass  |-> over255(quotient(sumLoop(data, 0, bassEnd), bassEnd)),
         mids  |-> over255(quotient(sumLoop(data, midsStart, midsEnd),
                                    midsEnd - midsStart)),
         highs |-> over255(quotient(sumLoop(data, highsStart, bufferLength),
                                    bufferLength - highsStart))]

\* AudioProcessor.calculateAverage
calculateAverage(data) == over255(quotient(sumLoop(data, 0, Len(data)), Len(data)))

\* the bands AudioProcessor.getAudioData returns for the buffer data
processorBands(data) ==
    LET split == calculateFrequencyBands(data)
    IN  [bass |-> split.bass, mids |-> split.mids, highs |-> split.highs,
         average |-> calculateAverage(data)]

\* the for loop of the demo branch of updateAudioData from index i on
RECURSIVE demoLoop(_, _, _, _, _)
demoLoop(data, i, bassEnd, midsEnd, sums) ==
    IF i < Len(data)
    THEN demoLoop(data, i + 1, bassEnd, midsEnd,
             [total    |-> sums.total + data[i + 1],
              bassSum  |-> IF i < bassEnd THEN sums.bassSum + data[i + 1]
                           ELSE sums.bassSum,
              midsSum  |-> IF i < bassEnd THEN sums.midsSum
                           ELSE IF i < midsEnd THEN sums.midsSum + data[i + 1]
                           ELSE sums.midsSum,
              highsSum |-> IF i < bassEnd THEN sums.highsSum
                           ELSE IF i < midsEnd THEN sums.highsSum
                           ELSE sums.highsSum + data[i + 1]])
    ELSE sums

\* the bands the demo branch of updateAudioData publishes
demoBands(data) ==
    LET bufferLength == Len(data)
        bassEnd == bufferLength \div 8
        midsEnd == bufferLength \div 2
        sums    == demoLoop(data, 0, bassEnd, midsEnd, NoSums)
    IN  [bass    |-> over255(quotient(sums.bassSum, bassEnd)),
         mids    |-> over255(quotient(sums.midsSum, midsEnd - bassEnd)),
         highs   |-> over255(quotient(sums.highsSum, bufferLength - midsEnd)),
         average |-> over255(quotient(sums.total, bufferLength))]

----------------------------------------------------------------------------
(* Spectral features.  A percentage is a whole number of hundredths. *)

\* the for loop of getSpectralCentroid from index i on
RECURSIVE centroidLoop(_, _, _)
centroidLoop(data, i, sums) ==
    IF i < Len(data)
    THEN centroidLoop(data, i + 1,
             [numerator   |-> sums.numerator + i * data[i + 1],
              denominator |-> sums.denominator + data[i + 1]])
    ELSE sums

\* numerator / denominator without the test of the denominator
getSpectralCentroidUnguarded(data) ==
    LET sums == centroidLoop(data, 0, [numerator |-> 0, denominator |-> 0])
    IN  quotient(sums.numerator, sums.denominator)

\* FFTAnalyzer.getSpectralCentroid
getSpectralCentroid(data) ==
    LET sums == centroidLoop(data, 0, [numerator |-> 0, denominator |-> 0])
    IN  IF sums.denominator > 0 THEN quotient(sums.numerator, sums.denominator)
        ELSE [n |-> 0, d |-> 1]

\* the for loop of getSpectralRolloff from index i on; cumulativeEnergy >=
\* totalEnergy * percentage is compared in hundredths
RECURSIVE rolloffLoop(_, _, _, _, _)
rolloffLoop(data, i, cumulativeEnergy, totalEnergy, percentage) ==
    IF i < Len(data)
    THEN LET cumulative == cumulativeEnergy + data[i + 1]
         IN  IF cumulative * 100 >= totalEnergy * percentage
             THEN quotient(i, Len(data))
             ELSE rolloffLoop(data, i + 1, cumulative, totalEnergy, percentage)
    ELSE [n |-> 1, d |-> 1]

\* FFTAnalyzer.getSpectralRolloff
getSpectralRolloff(data, percentage) ==
    rolloffLoop(data, 0, 0, SumSeq(data), percentage)

\* the for loop of getZeroCrossingRate from index i on: the crossings counted
RECURSIVE crossingsLoop(_, _)
crossingsLoop(data, i) ==
    IF i < Len(data)
    THEN (IF \/ data[i] < center /\ data[i + 1] >= center
             \/ data[i] >= center /\ data[i + 1] < center
          THEN 1 ELSE 0) + crossingsLoop(data, i + 1)
    ELSE 0

\* the crossings over the number of pairs in place of the number of samples
getZeroCrossingRatePerPair(data) ==
    quotient(crossingsLoop(data, 1), Len(data) - 1)

\* FFTAnalyzer.getZeroCrossingRate
getZeroCrossingRate(data) == quotient(crossingsLoop(data, 1), Len(data))

----------------------------------------------------------------------------
(* VisualizerScene.  The scene parameters (scales, offsets, uniforms) are
   sines and products of doubles; the model keeps, for the latest update
   call, which resources' parameters it wrote, by which method and from
   which data: the scene time, the idleData made from the scene time, or
   the AudioData. *)

VisualizerTypes == {"bars", "waveform", "particles", "tunnel", "ambience", "battery"}

\* the fields created on demand by setVisualizerType, the synthwave
\* environment, and all resource fields
LazyResources == {"waveformLine", "particles", "tunnel", "ambiencePlane", "batteryPlane"}
Environment == {"grid", "sun"}
Resources == {"bars"} \cup LazyResources \cup Environment

\* the type whose resource the field is
typeOf(name) ==
    CASE name = "bars" -> "bars"
      [] name = "waveformLine" -> "waveform"
      [] name = "particles" -> "particles"
      [] name = "tunnel" -> "tunnel"
      [] name = "ambiencePlane" -> "ambience"
      [] name = "batteryPlane" -> "battery"

\* a field that is null (the bars array: empty)
Null == [object |-> 0, visible |-> FALSE]

\* new THREE.Mesh / Line / Points: the count-th object of the field, visible
\* unless the create method hides it
create(name, count) ==
    [object |-> count, visible |-> name \notin LazyResources]

\* "this.createX()" without the test of the field
createAnew(r, name, count) == create(name, count + 1)

\* "if (!this.x) this.createX()": the field afterwards
createIfNull(r, name, count) ==
    IF r[name].object = 0 THEN create(name, count + 1) ELSE r[name]

\* every mode shown, whatever the type
visibleAlways(name, type) == TRUE

\* "x.visible = type === '...'": the visibility setVisualizerType gives a resource
visibleFor(name, type) == type = typeOf(name)

showSynthwave(type) == type \in {"bars", "waveform", "particles", "tunnel"}

\* setVisualizerType(type): the resources afterwards
setVisualizerType(r, counts, type) ==
    [name \in Resources |->
        IF name \in Environment
        THEN IF r[name].object # 0
             THEN [r[name] EXCEPT !.visible = showSynthwave(type)]
             ELSE r[name]
        ELSE IF name = "bars"
        THEN IF r[name].object # 0
             THEN [r[name] EXCEPT !.visible = visibleFor(name, type)]
             ELSE r[name]
        ELSE [createIfNull(r, name, counts[name]) EXCEPT
                 !.visible = visibleFor(name, type)]]

\* the camera position setVisualizerType chooses (an update with an
\* AudioData moves it to a position computed from bass, mids and the time:
\* by is then "update")
cameraFor(type) ==
    IF type \in {"ambience", "battery"}
    THEN [by |-> "setVisualizerType", position |-> <<0, 0, 15>>]
    ELSE [by |-> "setVisualizerType", position |-> <<0, 5, 20>>]

\* AudioData | null: null is the record that is not present
NoAudioData == [present |-> FALSE, frequencyData |-> <<>>, timeDomainData |-> <<>>]

\* an update that also takes an AudioData with an empty frame for none
isMissingOrEmpty(audioData) ==
    ~audioData.present \/ Len(audioData.frequencyData) = 0

\* "!audioData"
isMissing(audioData) == ~audioData.present

\* i % 0: not a number, which is no index of any array
NaNIndex == -1

\* the indices updateBars reads in frequencyData, for bars bars
barReads(data, bars) ==
    LET step == Len(data) \div bars
    IN  {i * step : i \in 0..(bars - 1)}

\* the indices updateWaveform reads in timeDomainData
waveformReads(data) ==
    LET end == IF waveformPoints <= Len(data) THEN waveformPoints ELSE Len(data)
    IN  {i \in 0..(waveformPoints - 1) : i < end}

\* the indices updateParticles reads in frequencyData, for count particles
particleReads(data, count) ==
    IF Len(data) = 0 THEN {NaNIndex}
    ELSE {i % Len(data) : i \in 0..(count - 1)}

\* the reads that fall outside the array
outside(data, reads) == {i \in reads : i < 0 \/ i >= Len(data)}

\* the write of the parameters of the resource name, unless the field is
\* null (the bars array: empty)
write(r, name, by, data) ==
    IF r[name].object = 0 THEN {}
    ELSE {[name |-> name, by |-> by, data |-> data]}

\* the method update dispatches to for the type
methodOf(type) ==
    CASE type = "bars" -> "updateBars"
      [] type = "waveform" -> "updateWaveform"
      [] type = "particles" -> "updateParticles"
      [] type = "tunnel" -> "updateTunnel"
      [] type = "ambience" -> "updateAmbience"
      [] type = "battery" -> "updateBattery"

\* the resource the method of the type writes
resourceOf(type) == CHOOSE name \in Resources \ Environment : typeOf(name) = type

\* an updateIdle that animates the bars only
updateIdleBars(r, type) == write(r, "bars", "updateIdle", "time")

\* updateIdle(): its writes
updateIdle(r, type) ==
    write(r, "bars", "updateIdle", "time")
    \cup (IF type = "ambience"
          THEN write(r, "ambiencePlane", "updateAmbience", "idleData")
          ELSE IF type = "battery"
          THEN write(r, "batteryPlane", "updateBattery", "idleData")
          ELSE {})

\* the switch of update: the writes of the method of the type
dispatch(r, type) == write(r, resourceOf(type), methodOf(type), "audioData")

\* the reads of the method of the type that fall outside the arrays of
\* audioData
readsOf(r, type, audioData) ==
    CASE type = "bars" ->
             IF r["bars"].object = 0 THEN {}
             ELSE outside(audioData.frequencyData,
                          barReads(audioData.frequencyData, barCount))
      [] type = "waveform" ->
             IF r["waveformLine"].object = 0 THEN {}
             ELSE outside(audioData.timeDomainData,
                          waveformReads(audioData.timeDomainData))
      [] type = "particles" ->
             IF r["particles"].object = 0 THEN {}
             ELSE outside(audioData.frequencyData,
                          particleReads(audioData.frequencyData, particleCount))
      [] OTHER -> {}

\* update(audioData): its writes, the camera afterwards, the path taken and
\* the reads outside the arrays
update(r, cam, type, audioData) ==
    LET timed == write(r, "grid", "update", "time")
                 \cup write(r, "sun", "update", "time")
    IN  IF isMissing(audioData)
        THEN [written |-> timed \cup updateIdle(r, type),
              camera  |-> cam,
              path    |-> "updateIdle",
              outside |-> {}]
        ELSE [written |-> timed \cup dispatch(r, type),
              camera  |-> IF type \notin {"ambience", "battery"}
                          THEN [cam EXCEPT !.by = "update"]
                          ELSE cam,
              path    |-> methodOf(type),
              outside |-> readsOf(r, type, audioData)]

\* An audio loop that publishes whenever the context is ready.
publishesWhenReady(ready, playing) == ready

\* The audio loop's test: audioContextManager.isReady && state.isPlaying
publishes(ready, playing) == ready /\ playing

\* What animate hands to update: audioDataRef.current in the component that
\* has the ref, else the audioData of the render that created the loop, the
\* first one, which is null.
handed(component, ref) == IF component = "part_003" THEN ref ELSE 0

\* types.indexOf(type): the zero-based position, -1 when absent
indexOf(types, type) ==
    IF \E i \in 1..Len(types) : types[i] = type
    THEN (CHOOSE i \in 1..Len(types) : types[i] = type) - 1
    ELSE -1

\* types[(types.indexOf(type) + 1) % types.length]
following(types, type) == types[((indexOf(types, type) + 1) % Len(types)) + 1]

\* The types of App's cycle
appTypes == <<"ambience", "battery", "bars", "waveform", "particles", "tunnel">>

\* App.cycleVisualizerType: the type it sets
appCycleVisualizerType(type) == following(appTypes, type)

\* The types of the Visualizer's mode button
buttonTypes == <<"bars", "waveform", "particles", "tunnel">>

\* Visualizer.cycleVisualizerType: the type it hands to onTypeChange
cycleVisualizerType(type) == following(buttonTypes, type)

\* (Math.random() - 0.5) * 50, in units of 1 / PositionUnit; random is a
\* number of such units
seed(random) == (2 * random - PositionUnit) * halfRange

\* the seeds for Math.random() at 0, at one half, and at the largest value
\* below 1 the unit shows
Seeds == {seed(random) : random \in {0, PositionUnit \div 2, PositionUnit - 1}}

\* createParticles(): the Y coordinates of the first n particles
createParticles(n) == [1..n -> Seeds]

\* A reset that only looks at the upper limit.
outOfRangeAbove(y) == y > halfRange * PositionUnit

\* positions.getY(i) > 25 || positions.getY(i) < -25
outOfRange(y) == y > halfRange * PositionUnit \/ y < -(halfRange * PositionUnit)

\* The Y coordinates particle i can have after one pass of the loop of
\* updateParticles: y + (value - 0.5) * 0.5 + Math.sin(this.time + i) * 0.1
\* with value = frequencyData[i % length] / 255, and a new random Y when that
\* is out of range, the sine taken at its extremes -1 and 1.  On an empty
\* frame the index is NaN and so is the sum.
particleY(y, i, data) ==
    IF Len(data) = 0 \/ y = NaNPosition THEN {NaNPosition}
    ELSE UNION {
             LET sum == y + (2 * data[(i % Len(data)) + 1] - MaxByte) * 2
                          + sine * (PositionUnit \div 10)
             IN  IF outOfRange(sum) THEN Seeds ELSE {sum}
             : sine \in {-1, 1}}

\* updateParticles(audioData): the Y coordinates afterwards
updateParticles(ys, data) ==
    {after \in [1..Len(ys) -> UNION {particleY(ys[i], i - 1, data) : i \in 1..Len(ys)}] :
        \A i \in 1..Len(ys) : after[i] \in particleY(ys[i], i - 1, data)}

\* The Y coordinates after an update that took the given path
moved(path, ys, audioData) ==
    IF path = "updateParticles" THEN updateParticles(ys, audioData.frequencyData)
    ELSE {ys}

\* The camera and the two render targets for a container of a given size.
\* The projection matrix is recorded by the aspect it was computed from.
sized(width, height) ==
    [aspect     |-> quotient(width, height),
     projection |-> quotient(width, height),
     renderer   |-> <<width, height>>,
     composer   |-> <<width, height>>]

\* A resize handler that also restarted the scene time.
handleResizeRestarting(scene, width, height) ==
    [scene EXCEPT !.viewport = sized(width, height), !.time = 0]

\* handleResize with the container at width x height
handleResize(scene, width, height) ==
    [scene EXCEPT !.viewport = sized(width, height)]

\* What the composer draws of a scene into its target.
drawn(scene) ==
    [drawn |-> TRUE, type |-> scene.currentType, size |-> scene.viewport.composer]

\* A render that went back to the default mode before drawing.
renderDefault(scene) ==
    [scene  |-> [scene EXCEPT !.currentType = "bars"],
     canvas |-> drawn([scene EXCEPT !.currentType = "bars"])]

\* render(): the composer draws the scene as it stands and leaves it alone.
render(scene) == [scene |-> scene, canvas |-> drawn(scene)]

----------------------------------------------------------------------------
(* Inputs *)

Silence == [bass |-> 0, mids |-> 0, highs |-> 0]
Quiet == [bass |-> 40, mids |-> 30, highs |-> 20]
Loud == [bass |-> 255, mids |-> 128, highs |-> 0]

\* The band values of a frame: silence, a quiet frame under the absolute
\* floor, and a loud bass-heavy frame.
Features == {Silence, Quiet, Loud}

\* The time between two analyzeBeat calls (performance.now() never decreases).
Delays == {0, 100, 700}

Inputs == [audioData : Features, delay : Delays]

\* The periodic signals: a transient of width ms every period ms, first at
\* phase ms, over a constant base, sampled every cadence ms (60 per second).
Signals == [period : {500}, phase : 0..MaxPhase, width : {17, 50, 150},
            cadence : {16, 17}, base : {Silence, Quiet}, peak : {Loud}]

NoSignal == [period |-> 1, phase |-> 0, width |-> 0, cadence |-> 0,
             base |-> Silence, peak |-> Silence]

\* the value of signal s at time t
sample(s, t) == IF (t - s.phase) % s.period < s.width THEN s.peak ELSE s.base

Starts == {0, 1000}

\* The magnitudes of a bin, and the SpectralFrames of up to MaxBins bins
Bytes == {0, 7, MaxByte}
SpectralFrames == UNION {[1..n -> Bytes] : n \in 0..MaxBins}

\* The arrays handed to the spectral feature functions: frames and waveforms
\* of up to MaxSamples bytes, the waveform bytes around the center
ShortFrames == UNION {[1..n -> Bytes] : n \in 0..MaxSamples}
Samples == {0, center - 1, center}
WaveformFrames == UNION {[1..n -> Samples] : n \in 0..MaxSamples}

\* The percentage argument of getSpectralRolloff: a half, the default, all
Percentages == {50, defaultPercentage, 100}

\* The spectra of the interleaved runs.
PureFrames == {<<>>, <<0, 7, MaxByte>>}

NoFeatures == [by |-> "none", percentage |-> 0, out |-> [n |-> 0, d |-> 1],
               after |-> 0]

\* The lengths of the arrays of an AudioData handed to the scene, which the
\* analyser fixes: every length up to MaxLength, the lengths around the 64
\* bars, the 256 waveform points and the 1024 bins of fftSize 2048
SceneLengths ==
    (0..MaxLength) \cup {barCount - 1, barCount, barCount + 1, waveformPoints,
                         1024}
frame(length) == [i \in 1..length |-> MaxByte]

\* The scene times between two update calls, in frame intervals
Deltas == {0, 1}

\* The size of the container when the scene is constructed, and the sizes it
\* is resized to: collapsed, portrait, landscape.
container == <<4, 3>>

Sizes == {<<0, 0>>, <<3, 4>>, container}

Blank == [drawn |-> FALSE, type |-> "bars", size |-> container]

NoUpdate == [present |-> FALSE, type |-> "bars", path |-> "none",
             delta |-> 0, written |-> {}, outside |-> {}]

NoResult == [isBeat |-> FALSE, beatIntensity |-> [n |-> 0, d |-> 1], bpm |-> 0]

NoBands == [by |-> "none", out |-> [bass |-> [n |-> 0, d |-> 1], mids |-> [n |-> 0, d |-> 1],
                                    highs |-> [n |-> 0, d |-> 1], average |-> [n |-> 0, d |-> 1]]]

this == [energyHistory |-> energyHistory, beatHistory |-> beatHistory,
         lastBeatTime |-> lastBeatTime]

----------------------------------------------------------------------------
(* Steps *)

\* the scene after new VisualizerScene(container): the environment and the
\* bars are constructed and visible, every other field is null
\* The Visualizer components of the repository: one reads audioDataRef in its
\* animation loop, one the audioData of its first render.
Variants == {"part_003", "part_004"}

NoTick == [log |-> <<>>, used |-> 0, before |-> 0]

\* useAudioPlayer before any handler has run
PlayerAtStart ==
    /\ isReady = FALSE
    /\ isPlaying = FALSE
    /\ isDemoMode = FALSE
    /\ currentTrack = "none"
    /\ published = 0
    /\ audioDataRef = 0
    /\ ticks = 0
    /\ lastTick = NoTick

NewPlayer == PlayerAtStart /\ variant = "part_003"

\* App before the Visualizer's effects have run
NewApp ==
    /\ visualizerType = "ambience"
    /\ mounted = FALSE
    /\ origin = "ambience"
    /\ visited = {"ambience"}
    /\ presses = [button |-> 0, key |-> 0, returned |-> FALSE]

\* No particle is followed: the positions buffer is left out of the state.
NoParticles == tracked = 0 /\ positionsY = <<>>

\* The hook's first render: an empty playlist, a new Audio() that is paused,
\* no timer, and handlers that have captured the initial state.
NoMedia ==
    /\ playlist = <<>>
    /\ currentId = 0
    /\ issued = 0
    /\ element = [paused |-> TRUE, events |-> <<>>]
    /\ timers = {}
    /\ demoIntervalRef = 0
    /\ lastBeat = [timer |-> 0, demo |-> FALSE]
    /\ closure = [isDemoMode |-> FALSE, playlist |-> <<>>, currentId |-> 0]
    /\ handler = "none"

NewScene ==
    /\ currentType = "bars"
    /\ time = 0
    /\ resources = [name \in Resources |->
                       IF name \in LazyResources THEN Null ELSE create(name, 1)]
    /\ camera = [by |-> "constructor", position |-> <<0, 5, 20>>]
    /\ constructions = [name \in Resources |->
                           IF name \in LazyResources THEN 0 ELSE 1]
    /\ constructedFor = [name \in Resources |->
                            IF name \in LazyResources THEN "none" ELSE "bars"]
    /\ lastUpdate = NoUpdate
    /\ viewport = sized(container[1], container[2])
    /\ canvas = Blank

Init ==
    /\ energyHistory = NewAnalyzer.energyHistory
    /\ beatHistory = NewAnalyzer.beatHistory
    /\ lastBeatTime = NewAnalyzer.lastBeatTime
    /\ clock = 0
    /\ result = NoResult
    /\ lastFrame = [op |-> "new", audioData |-> Silence, now |-> 0,
                    before |-> NewAnalyzer]
    /\ flagged = <<>>
    /\ fresh = NewAnalyzer
    /\ freshResult = NoResult
    /\ discarded = NewAnalyzer
    /\ frames = 0
    /\ totalFrames = 0
    /\ wasReset = FALSE
    /\ script = <<>>
    /\ signal = NoSignal
    /\ frequencyData = <<>>
    /\ bands = NoBands
    /\ timeDomainData = <<>>
    /\ features = NoFeatures
    /\ NewScene
    /\ NewApp
    /\ NewPlayer
    /\ NoParticles
    /\ NoMedia

\* analyzeBeat(audioData) when performance.now() returns now, on the analyzer
\* and on the second analyzer alike
Call(audioData, now) ==
    LET call == analyzeBeat(this, audioData, now)
        twin == analyzeBeat(fresh, audioData, now)
    IN  /\ clock' = now
        /\ energyHistory' = call.fields.energyHistory
        /\ beatHistory' = call.fields.beatHistory
        /\ lastBeatTime' = call.fields.lastBeatTime
        /\ result' = call.result
        /\ fresh' = twin.fields
        /\ freshResult' = twin.result
        /\ flagged' = IF call.result.isBeat THEN Append(flagged, now) ELSE flagged
        /\ lastFrame' = [op |-> "analyzeBeat", audioData |-> audioData,
                         now |-> now, before |-> this]
        /\ frames' = frames + 1
        /\ totalFrames' = totalFrames + 1

\* One analyzeBeat call.  The first FreeFrames inputs of a run are free; from
\* then on a run repeats its two latest inputs in turn.
AnalyzeBeat ==
    \E in \in Inputs :
        /\ totalFrames < MaxFrames
        /\ totalFrames >= FreeFrames => in = script[1]
        /\ Call(in.audioData, clock + in.delay)
        /\ script' = IF Len(script) < 2 THEN Append(script, in)
                     ELSE <<script[2], in>>
        /\ UNCHANGED <<wasReset, discarded, signal, splitterVars, featureVars, sceneVars, appVars, playerVars, particleVars, mediaVars>>

\* reset(), while a new FFTAnalyzer is constructed beside it; called within
\* the first ResetFrames frames of a run
Reset ==
    /\ totalFrames <= ResetFrames
    /\ LET after == reset(this)
       IN  /\ energyHistory' = after.energyHistory
           /\ beatHistory' = after.beatHistory
           /\ lastBeatTime' = after.lastBeatTime
    /\ fresh' = NewAnalyzer
    /\ freshResult' = NoResult
    /\ result' = NoResult
    /\ flagged' = <<>>
    /\ discarded' = this
    /\ lastFrame' = [op |-> "reset", audioData |-> Silence, now |-> clock,
                     before |-> this]
    /\ frames' = 0
    /\ wasReset' = TRUE
    /\ UNCHANGED <<clock, totalFrames, script, signal, splitterVars, featureVars, sceneVars, appVars, playerVars, particleVars, mediaVars>>

Next == AnalyzeBeat \/ Reset

Spec == Init /\ [][Next]_vars

\* The detector fed a periodic signal at the frame cadence
InitPeriodic ==
    /\ energyHistory = NewAnalyzer.energyHistory
    /\ beatHistory = NewAnalyzer.beatHistory
    /\ lastBeatTime = NewAnalyzer.lastBeatTime
    /\ clock \in Starts
    /\ result = NoResult
    /\ lastFrame = [op |-> "new", audioData |-> Silence, now |-> 0,
                    before |-> NewAnalyzer]
    /\ flagged = <<>>
    /\ fresh = NewAnalyzer
    /\ freshResult = NoResult
    /\ discarded = NewAnalyzer
    /\ frames = 0
    /\ totalFrames = 0
    /\ wasReset = FALSE
    /\ script = <<>>
    /\ signal \in Signals
    /\ frequencyData = <<>>
    /\ bands = NoBands
    /\ timeDomainData = <<>>
    /\ features = NoFeatures
    /\ NewScene
    /\ NewApp
    /\ NewPlayer
    /\ NoParticles
    /\ NoMedia

PeriodicFrame ==
    /\ totalFrames < PeriodicFrames
    /\ Call(sample(signal, clock + signal.cadence), clock + signal.cadence)
    /\ UNCHANGED <<wasReset, discarded, script, signal, splitterVars, featureVars, sceneVars, appVars, playerVars, particleVars, mediaVars>>

NextPeriodic == PeriodicFrame

SpecPeriodic == InitPeriodic /\ [][NextPeriodic]_vars

\* The band splitters, each applied to a SpectralFrame of any length
InitBands ==
    /\ energyHistory = NewAnalyzer.energyHistory
    /\ beatHistory = NewAnalyzer.beatHistory
    /\ lastBeatTime = NewAnalyzer.lastBeatTime
    /\ clock = 0
    /\ result = NoResult
    /\ lastFrame = [op |-> "new", audioData |-> Silence, now |-> 0,
                    before |-> NewAnalyzer]
    /\ flagged = <<>>
    /\ fresh = NewAnalyzer
    /\ freshResult = NoResult
    /\ discarded = NewAnalyzer
    /\ frames = 0
    /\ totalFrames = 0
    /\ wasReset = FALSE
    /\ script = <<>>
    /\ signal = NoSignal
    /\ frequencyData \in SpectralFrames
    /\ bands = NoBands
    /\ timeDomainData = <<>>
    /\ features = NoFeatures
    /\ NewScene
    /\ NewApp
    /\ NewPlayer
    /\ NoParticles
    /\ NoMedia

CalculateBands ==
    /\ bands' = [by |-> "AudioContextManager", out |-> calculateBands(frequencyData)]
    /\ UNCHANGED <<detectorVars, frequencyData, featureVars, sceneVars, appVars, playerVars, particleVars, mediaVars>>

CalculateFrequencyBands ==
    /\ bands' = [by |-> "AudioProcessor", out |-> processorBands(frequencyData)]
    /\ UNCHANGED <<detectorVars, frequencyData, featureVars, sceneVars, appVars, playerVars, particleVars, mediaVars>>

UpdateAudioData ==
    /\ bands' = [by |-> "updateAudioData", out |-> demoBands(frequencyData)]
    /\ UNCHANGED <<detectorVars, frequencyData, featureVars, sceneVars, appVars, playerVars, particleVars, mediaVars>>

NextBands == CalculateBands \/ CalculateFrequencyBands \/ UpdateAudioData

SpecBands == InitBands /\ [][NextBands]_vars

\* a newly constructed FFTAnalyzer that has analysed no frame
NewDetector ==
    /\ energyHistory = NewAnalyzer.energyHistory
    /\ beatHistory = NewAnalyzer.beatHistory
    /\ lastBeatTime = NewAnalyzer.lastBeatTime
    /\ clock = 0
    /\ result = NoResult
    /\ lastFrame = [op |-> "new", audioData |-> Silence, now |-> 0,
                    before |-> NewAnalyzer]
    /\ flagged = <<>>
    /\ fresh = NewAnalyzer
    /\ freshResult = NoResult
    /\ discarded = NewAnalyzer
    /\ frames = 0
    /\ totalFrames = 0
    /\ wasReset = FALSE
    /\ script = <<>>
    /\ signal = NoSignal

\* The detector on a run whose beats stop: loud and silent frames in turn at
\* one of two paces, then free frames.
Paces == {100, 700}

driven(k, pace) ==
    [audioData |-> IF k % 2 = 0 THEN Loud ELSE Silence, delay |-> pace]

InitFade ==
    /\ NewDetector
    /\ frequencyData = <<>>
    /\ bands = NoBands
    /\ timeDomainData = <<>>
    /\ features = NoFeatures
    /\ NewScene
    /\ NewApp
    /\ NewPlayer
    /\ NoParticles
    /\ NoMedia

FadeFrame ==
    \E in \in Inputs :
        /\ totalFrames < FadeFrames
        /\ totalFrames < DrivenFrames =>
               \E pace \in Paces : in = driven(totalFrames, pace)
        /\ Call(in.audioData, clock + in.delay)
        /\ UNCHANGED <<wasReset, discarded, signal, script, splitterVars,
                       featureVars, sceneVars, appVars, playerVars, particleVars, mediaVars>>

NextFade == FadeFrame \/ Reset

SpecFade == InitFade /\ [][NextFade]_vars

\* The analysis functions, each applied to an array of any length: a
\* SpectralFrame for the band splitters, the centroid and the rolloff, a
\* WaveformFrame for the zero-crossing rate
InitFeatures ==
    /\ NewDetector
    /\ \/ frequencyData \in ShortFrames /\ timeDomainData = <<>>
       \/ frequencyData = <<>> /\ timeDomainData \in WaveformFrames
    /\ bands = NoBands
    /\ features = NoFeatures
    /\ NewScene
    /\ NewApp
    /\ NewPlayer
    /\ NoParticles
    /\ NoMedia

\* A feature function that pushed its input's energy into the history.
recording(a) == [a EXCEPT !.energyHistory = Append(@, 0)]

\* What a feature function leaves of the analyzer's fields: none of the three
\* functions assigns a field of this.
readOnly(a) == a

\* The analyzer's fields after a call, and every detector variable that no
\* feature function is in a position to touch.
Fields(a) ==
    /\ energyHistory' = a.energyHistory
    /\ beatHistory' = a.beatHistory
    /\ lastBeatTime' = a.lastBeatTime
    /\ UNCHANGED <<clock, result, lastFrame, flagged, fresh, freshResult,
                   discarded, frames, totalFrames, wasReset, script, signal>>

GetSpectralCentroid ==
    /\ features' = [by |-> "getSpectralCentroid", percentage |-> 0,
                    out |-> getSpectralCentroid(frequencyData),
                    after |-> totalFrames]
    /\ Fields(readOnly(this))
    /\ UNCHANGED <<splitterVars, timeDomainData, sceneVars, appVars, playerVars, particleVars, mediaVars>>

GetSpectralRolloff ==
    \E percentage \in Percentages :
        /\ features' = [by |-> "getSpectralRolloff", percentage |-> percentage,
                        out |-> getSpectralRolloff(frequencyData, percentage),
                        after |-> totalFrames]
        /\ Fields(readOnly(this))
        /\ UNCHANGED <<splitterVars, timeDomainData, sceneVars, appVars, playerVars, particleVars, mediaVars>>

GetZeroCrossingRate ==
    /\ features' = [by |-> "getZeroCrossingRate", percentage |-> 0,
                    out |-> getZeroCrossingRate(timeDomainData),
                    after |-> totalFrames]
    /\ Fields(readOnly(this))
    /\ UNCHANGED <<splitterVars, timeDomainData, sceneVars, appVars, playerVars, particleVars, mediaVars>>

NextFeatures ==
    \/ GetSpectralCentroid
    \/ GetSpectralRolloff
    \/ GetZeroCrossingRate
    \/ NextBands

SpecFeatures == InitFeatures /\ [][NextFeatures]_vars

\* The feature functions called between analyzeBeat calls of one analyzer,
\* beside a twin analyzer that gets the same analyzeBeat calls and no feature
\* call.
InitPure ==
    /\ NewDetector
    /\ frequencyData \in PureFrames
    /\ bands = NoBands
    /\ timeDomainData = <<center - 1, center>>
    /\ features = NoFeatures
    /\ NewScene
    /\ NewApp
    /\ NewPlayer
    /\ NoParticles
    /\ NoMedia

AnalyzeFrame ==
    \E in \in Inputs :
        /\ totalFrames < PureCalls
        /\ Call(in.audioData, clock + in.delay)
        /\ UNCHANGED <<wasReset, discarded, signal, script, splitterVars,
                       featureVars, sceneVars, appVars, playerVars, particleVars, mediaVars>>

NextPure ==
    \/ AnalyzeFrame
    \/ GetSpectralCentroid
    \/ GetSpectralRolloff
    \/ GetZeroCrossingRate
    \/ CalculateBands

SpecPure == InitPure /\ [][NextPure]_vars

\* The scene, fed by an analyser whose arrays have any one length
InitScene ==
    /\ NewDetector
    /\ \E length \in SceneLengths :
           /\ frequencyData = frame(length)
           /\ timeDomainData = frame(length)
    /\ bands = NoBands
    /\ features = NoFeatures
    /\ NewScene
    /\ NewApp
    /\ NewPlayer
    /\ NoParticles
    /\ NoMedia

\* What setVisualizerType(type) assigns
SetScene(type) ==
    \E after \in {setVisualizerType(resources, constructions, type)} :
        /\ currentType' = type
        /\ resources' = after
        /\ constructions' =
               [name \in Resources |->
                   IF after[name].object # resources[name].object
                   THEN constructions[name] + 1 ELSE constructions[name]]
        /\ camera' = cameraFor(type)
        /\ constructedFor' =
               [name \in Resources |->
                   IF after[name].object # resources[name].object
                   THEN type ELSE constructedFor[name]]
        /\ positionsY' \in IF after["particles"].object # resources["particles"].object
                           THEN createParticles(tracked) ELSE {positionsY}

\* setVisualizerType(type) alone
SetTo(type) == SetScene(type) /\ UNCHANGED <<time, lastUpdate, viewport, canvas>>

SetVisualizerType ==
    \E type \in VisualizerTypes :
        /\ SetTo(type)
        /\ UNCHANGED <<detectorVars, splitterVars, featureVars, appVars, playerVars,
                       tracked, mediaVars>>

\* update(audioData) with the AudioData of the frame or with null, delta
\* after the previous call
Update ==
    \E delta \in Deltas, audioData \in
            {NoAudioData, [present |-> TRUE, frequencyData |-> frequencyData,
                           timeDomainData |-> timeDomainData]} :
        /\ time + delta <= MaxSceneTime
        /\ \E after \in {update(resources, camera, currentType, audioData)} :
               /\ time' = time + delta
               /\ camera' = after.camera
               /\ lastUpdate' = [present |-> audioData.present,
                                 type |-> currentType,
                                 path |-> after.path, delta |-> delta,
                                 written |-> after.written,
                                 outside |-> after.outside]
               /\ positionsY' \in moved(after.path, positionsY, audioData)
        /\ UNCHANGED <<detectorVars, splitterVars, featureVars, currentType,
                       resources, constructions, constructedFor, viewport,
                       canvas, appVars, playerVars, tracked, mediaVars>>

NextScene == SetVisualizerType \/ Update

SpecScene == InitScene /\ [][NextScene]_vars

\* The scene with its render and resize calls, on frames of one length.
scene == [currentType |-> currentType, time |-> time, resources |-> resources,
          camera |-> camera, viewport |-> viewport, lastUpdate |-> lastUpdate]

InitViewport ==
    /\ NewDetector
    /\ frequencyData = frame(MaxLength)
    /\ timeDomainData = frame(MaxLength)
    /\ bands = NoBands
    /\ features = NoFeatures
    /\ NewScene
    /\ NewApp
    /\ NewPlayer
    /\ NoParticles
    /\ NoMedia

Render ==
    \E after \in {render(scene)} :
        /\ canvas' = after.canvas
        /\ currentType' = after.scene.currentType
        /\ time' = after.scene.time
        /\ resources' = after.scene.resources
        /\ camera' = after.scene.camera
        /\ viewport' = after.scene.viewport
        /\ lastUpdate' = after.scene.lastUpdate
        /\ UNCHANGED <<detectorVars, splitterVars, featureVars, constructions,
                       constructedFor, appVars, playerVars, particleVars, mediaVars>>

\* The window's resize event, with the container at one of the sizes
HandleResize ==
    \E size \in Sizes :
        \E after \in {handleResize(scene, size[1], size[2])} :
            /\ currentType' = after.currentType
            /\ time' = after.time
            /\ resources' = after.resources
            /\ camera' = after.camera
            /\ viewport' = after.viewport
            /\ lastUpdate' = after.lastUpdate
            /\ UNCHANGED <<detectorVars, splitterVars, featureVars,
                           constructions, constructedFor, canvas, appVars, playerVars, particleVars, mediaVars>>

\* The Visualizer's effects after its first render: the scene is constructed
\* and animate() runs once, with no AudioData yet and the clock just started;
\* then the scene is told the type App holds.
Mount ==
    /\ ~mounted
    /\ mounted' = TRUE
    /\ \E first \in {update(resources, camera, currentType, NoAudioData)} :
           lastUpdate' = [present |-> FALSE, type |-> currentType,
                          path |-> first.path, delta |-> 0,
                          written |-> first.written, outside |-> first.outside]
    /\ canvas' = render(scene).canvas
    /\ SetScene(visualizerType)
    /\ UNCHANGED <<detectorVars, splitterVars, featureVars, time, viewport,
                   visualizerType, origin, visited, presses, playerVars,
                   tracked, mediaVars>>

\* A click on the Visualizer's mode button; App takes the type and the
\* Visualizer's effect on [type] hands it to the scene.
PressModeButton ==
    \E type \in {cycleVisualizerType(visualizerType)} :
        /\ mounted
        /\ presses.button < MaxPresses
        /\ visualizerType' = type
        /\ SetTo(type)
        /\ visited' = visited \cup {type}
        /\ presses' = [presses EXCEPT !.button = @ + 1,
                                      !.returned = @ \/ type = origin]
        /\ UNCHANGED <<detectorVars, splitterVars, featureVars, mounted, origin,
                       playerVars, tracked, mediaVars>>

\* KeyV, or a click on App's own mode button; a new run of presses starts.
PressKeyV ==
    \E type \in {appCycleVisualizerType(visualizerType)} :
        /\ mounted
        /\ presses.key < MaxPresses
        /\ visualizerType' = type
        /\ SetTo(type)
        /\ origin' = type
        /\ visited' = {type}
        /\ presses' = [button |-> 0, key |-> presses.key + 1, returned |-> FALSE]
        /\ UNCHANGED <<detectorVars, splitterVars, featureVars, mounted,
                       playerVars, tracked, mediaVars>>

NextCycle == Mount \/ PressModeButton \/ PressKeyV

SpecCycle == InitViewport /\ [][NextCycle]_vars

\* The AudioData of a frame number, null for 0
asAudioData(n) ==
    IF n = 0 THEN NoAudioData
    ELSE [present |-> TRUE, frequencyData |-> frequencyData,
          timeDomainData |-> timeDomainData]

\* The app with its two animation loops.
InitLoop ==
    /\ NewDetector
    /\ frequencyData = frame(MaxLength)
    /\ timeDomainData = frame(MaxLength)
    /\ bands = NoBands
    /\ features = NoFeatures
    /\ NewScene
    /\ NewApp
    /\ PlayerAtStart
    /\ variant \in Variants
    /\ NoParticles
    /\ NoMedia

\* One display refresh.  The callbacks run in the order of their requests:
\* animate, requested by the Visualizer's effect, then updateAudioData,
\* requested by the hook's effect in App, which runs after its child's and
\* whose re-registrations go to the end of the list.  React then commits the
\* published frame, and the effect on [audioData] stores it in the ref.
Tick ==
    \E delta \in Deltas :
        /\ mounted
        /\ ticks < MaxTicks
        /\ time + delta <= MaxSceneTime
        /\ \E data \in {handed(variant, audioDataRef)},
              pub \in {publishes(isReady, isPlaying)} :
               /\ \E after \in {update(resources, camera, currentType,
                                        asAudioData(data))} :
                      /\ time' = time + delta
                      /\ camera' = after.camera
                      /\ lastUpdate' = [present |-> data # 0,
                                        type |-> currentType,
                                        path |-> after.path, delta |-> delta,
                                        written |-> after.written,
                                        outside |-> after.outside]
                      /\ positionsY' \in moved(after.path, positionsY,
                                                asAudioData(data))
               /\ canvas' = render(scene).canvas
               /\ published' = IF pub THEN ticks + 1 ELSE published
               /\ bands' = IF pub
                           THEN [by |-> "AudioContextManager",
                                 out |-> calculateBands(frequencyData)]
                           ELSE bands
               /\ audioDataRef' = IF pub /\ variant = "part_003"
                                  THEN ticks + 1 ELSE audioDataRef
               /\ lastTick' = [log |-> IF pub
                                       THEN <<"update", "render", "calculateBands">>
                                       ELSE <<"update", "render">>,
                               used |-> data, before |-> published]
        /\ ticks' = ticks + 1
        /\ UNCHANGED <<detectorVars, frequencyData, featureVars, currentType,
                       resources, constructions, constructedFor, viewport,
                       appVars, isReady, isPlaying, isDemoMode, currentTrack,
                       variant, tracked, mediaVars>>

\* What no player handler touches
PlayerFrame ==
    UNCHANGED <<detectorVars, splitterVars, featureVars, sceneVars, appVars,
                variant, ticks, lastTick, particleVars, mediaVars>>

\* stopDemo(), and the commit that stores the null in the ref
StopDemo ==
    /\ isDemoMode' = FALSE
    /\ isPlaying' = FALSE
    /\ currentTrack' = "none"
    /\ published' = 0
    /\ audioDataRef' = 0

\* startDemo(), from KeyD or the demo button
StartDemo ==
    /\ mounted /\ ~isDemoMode
    /\ isReady' = TRUE
    /\ isDemoMode' = TRUE
    /\ isPlaying' = TRUE
    /\ currentTrack' = "demo"
    /\ UNCHANGED <<published, audioDataRef>>
    /\ PlayerFrame

\* loadTrack(track)
LoadTrack ==
    /\ mounted
    /\ IF isDemoMode THEN StopDemo
       ELSE UNCHANGED <<isDemoMode, isPlaying, published, audioDataRef>>
    /\ isReady' = TRUE
    /\ currentTrack' = "file"
    /\ PlayerFrame

\* play(), with the audio element's play event
Play ==
    /\ mounted
    /\ isDemoMode \/ currentTrack # "none"
    /\ isPlaying' = TRUE
    /\ UNCHANGED <<isReady, isDemoMode, currentTrack, published, audioDataRef>>
    /\ PlayerFrame

\* pause(), with the audio element's pause event
Pause ==
    /\ mounted
    /\ isPlaying' = FALSE
    /\ UNCHANGED <<isReady, isDemoMode, currentTrack, published, audioDataRef>>
    /\ PlayerFrame

\* stop()
Stop ==
    /\ mounted
    /\ IF isDemoMode THEN StopDemo
       ELSE /\ isPlaying' = FALSE
            /\ UNCHANGED <<isDemoMode, currentTrack, published, audioDataRef>>
    /\ UNCHANGED isReady
    /\ PlayerFrame

NextLoop == Mount \/ Tick \/ StartDemo \/ LoadTrack \/ Play \/ Pause \/ Stop

SpecLoop == InitLoop /\ [][NextLoop]_vars

\* The scene with the Y coordinates of its first particles, on an empty frame
\* and on frames of one and two bins.
InitParticles ==
    /\ NewDetector
    /\ frequencyData \in {<<>>, <<0>>, <<MaxByte>>, <<MaxByte, 0>>}
    /\ timeDomainData = frequencyData
    /\ bands = NoBands
    /\ features = NoFeatures
    /\ NewScene
    /\ NewApp
    /\ NewPlayer
    /\ tracked = MaxParticles
    /\ positionsY = <<>>
    /\ NoMedia

\* update(audioData) in particles mode with the frame, one unit of time after
\* the previous call
ParticleFrame ==
    /\ currentType = "particles"
    /\ time < ParticleFrames
    /\ \E audioData \in {[present |-> TRUE, frequencyData |-> frequencyData,
                           timeDomainData |-> timeDomainData]} :
           \E after \in {update(resources, camera, currentType, audioData)} :
               /\ time' = time + 1
               /\ camera' = after.camera
               /\ lastUpdate' = [present |-> TRUE, type |-> currentType,
                                 path |-> after.path, delta |-> 1,
                                 written |-> after.written,
                                 outside |-> after.outside]
               /\ positionsY' \in moved(after.path, positionsY, audioData)
    /\ UNCHANGED <<detectorVars, splitterVars, featureVars, currentType,
                   resources, constructions, constructedFor, viewport,
                   canvas, appVars, playerVars, tracked, mediaVars>>

\* setVisualizerType('particles'): the first call creates the particles
ShowParticles ==
    /\ SetTo("particles")
    /\ UNCHANGED <<detectorVars, splitterVars, featureVars, appVars, playerVars,
                   tracked, mediaVars>>

NextParticles == ShowParticles \/ ParticleFrame

SpecParticles == InitParticles /\ [][NextParticles]_vars

----------------------------------------------------------------------------
(* useAudioPlayer with its audio element, its demo timers and its playlist *)

MaxTracks == 2
MaxEvents == 1
MaxTimers == 2

\* What the hook's handlers read and write
hook ==
    [isReady |-> isReady, isPlaying |-> isPlaying, isDemoMode |-> isDemoMode,
     currentTrack |-> currentTrack, currentId |-> currentId,
     playlist |-> playlist, issued |-> issued, element |-> element,
     timers |-> timers, demoIntervalRef |-> demoIntervalRef,
     lastBeat |-> lastBeat, published |-> published]

\* audio.pause(): an element that is playing is paused at once and its pause
\* event is queued
pauseElement(e) ==
    IF e.paused THEN e
    ELSE [paused |-> TRUE, events |-> Append(e.events, "pause")]

\* startDemo(): the element is paused (setting its src adds no event), the
\* beat of the call itself is scheduled, and window.setInterval's new id, one
\* that no live timer has, is stored over whatever demoIntervalRef held
startDemo(s) ==
    LET id == CHOOSE id \in 1..(Cardinality(s.timers) + 1) :
                  id \notin s.timers /\ \A lower \in 1..(id - 1) : lower \in s.timers
    IN
    [s EXCEPT !.isReady = TRUE,
              !.element = pauseElement(@),
              !.timers = @ \cup {id},
              !.demoIntervalRef = id,
              !.lastBeat = [timer |-> id, demo |-> TRUE],
              !.isDemoMode = TRUE,
              !.isPlaying = TRUE,
              !.currentTrack = "demo",
              !.currentId = 0]

\* stopDemo(): only the timer in demoIntervalRef is cleared
stopDemo(s) ==
    [s EXCEPT !.timers = @ \ {s.demoIntervalRef},
              !.demoIntervalRef = 0,
              !.isDemoMode = FALSE,
              !.isPlaying = FALSE,
              !.currentTrack = "none",
              !.currentId = 0,
              !.published = 0]

\* loadTrack(track), demo being the isDemoMode its closure holds; load()
\* pauses the element without a pause event
loadTrack(s, id, demo) ==
    [(IF demo THEN stopDemo(s) ELSE s) EXCEPT
        !.isReady = TRUE,
        !.element.paused = TRUE,
        !.currentTrack = "file",
        !.currentId = id]

\* play(): audio.play() starts a paused element and queues its play event
play(s, demo) ==
    IF demo THEN [s EXCEPT !.isPlaying = TRUE]
    ELSE IF s.currentTrack = "none" \/ ~s.element.paused THEN s
    ELSE [s EXCEPT !.element = [paused |-> FALSE,
                                events |-> Append(@.events, "play")]]

\* pause()
pause(s, demo) ==
    IF demo THEN [s EXCEPT !.isPlaying = FALSE]
    ELSE [s EXCEPT !.element = pauseElement(@)]

\* stop()
stop(s, demo) ==
    IF demo THEN stopDemo(s)
    ELSE [s EXCEPT !.element = pauseElement(@), !.isPlaying = FALSE]

\* addToPlaylist(files) with one audio file: the track gets an id of its own
addToPlaylist(s, demo) ==
    LET added == [s EXCEPT !.playlist = Append(@, s.issued + 1),
                           !.issued = @ + 1]
    IN IF s.currentTrack = "none" THEN loadTrack(added, s.issued + 1, demo)
       ELSE added

\* removeFromPlaylist(trackId): prev.playlist.filter(t => t.id !== trackId)
removeFromPlaylist(s, id) ==
    [s EXCEPT !.playlist = SelectSeq(@, LAMBDA t : t # id)]

\* clearPlaylist()
clearPlaylist(s) ==
    [s EXCEPT !.playlist = <<>>,
              !.currentTrack = "none",
              !.currentId = 0,
              !.isPlaying = FALSE,
              !.element.paused = TRUE]

\* playNext() of the render that saw playlist list and current track id:
\* findIndex by id is indexOf on the list of ids, and the id of no track and
\* of the demo track is in no playlist
playNext(s, list, id, demo) ==
    IF indexOf(list, id) < Len(list) - 1
    THEN loadTrack(s, list[indexOf(list, id) + 2], demo)
    ELSE s

\* playPrevious()
playPrevious(s, list, id, demo) ==
    IF indexOf(list, id) > 0
    THEN loadTrack(s, list[indexOf(list, id)], demo)
    ELSE s

handlePause(s) == [s EXCEPT !.isPlaying = FALSE]

\* handleEnded(): the playNext of the render whose effect registered it
handleEnded(s, captured) ==
    playNext([s EXCEPT !.isPlaying = FALSE], captured.playlist,
             captured.currentId, captured.isDemoMode)

\* The hook when the handler named name has returned after
Handled(name, after) ==
    /\ isReady' = after.isReady
    /\ isPlaying' = after.isPlaying
    /\ isDemoMode' = after.isDemoMode
    /\ currentTrack' = after.currentTrack
    /\ currentId' = after.currentId
    /\ playlist' = after.playlist
    /\ issued' = after.issued
    /\ element' = after.element
    /\ timers' = after.timers
    /\ demoIntervalRef' = after.demoIntervalRef
    /\ lastBeat' = after.lastBeat
    /\ published' = after.published
    /\ handler' = name
    /\ UNCHANGED <<detectorVars, splitterVars, featureVars, sceneVars, appVars,
                   audioDataRef, variant, ticks, lastTick, particleVars,
                   closure>>

\* whether a handler may queue another event or start another timer
Room == Len(element.events) < MaxEvents /\ Cardinality(timers) < MaxTimers

\* KeyD: "if (!isDemoMode) startDemo()" with the isDemoMode of the render
\* that registered the listener
PressKeyD ==
    /\ Room
    /\ ~closure.isDemoMode
    /\ Handled("startDemo", startDemo(hook))

\* the demo button: "isDemoMode ? stopDemo() : startDemo()"
PressDemoButton ==
    /\ Room
    /\ IF closure.isDemoMode THEN Handled("stopDemo", stopDemo(hook))
       ELSE Handled("startDemo", startDemo(hook))

PlayCommand ==
    /\ Room
    /\ Handled("play", play(hook, closure.isDemoMode))

PauseCommand ==
    /\ Room
    /\ Handled("pause", pause(hook, closure.isDemoMode))

StopCommand ==
    /\ Room
    /\ Handled("stop", stop(hook, closure.isDemoMode))

\* the next queued event of the audio element reaches its listener,
\* handlePlay or handlePause
MediaEvent ==
    /\ element.events # <<>>
    /\ \E after \in {[hook EXCEPT !.element.events = Tail(@)]} :
           IF Head(element.events) = "play"
           THEN Handled("handlePlay", [after EXCEPT !.isPlaying = TRUE])
           ELSE Handled("handlePause", handlePause(after))

\* the track reaches its end: the element pauses itself and fires pause and
\* ended in one task
TrackEnds ==
    /\ ~element.paused
    /\ Handled("handleEnded",
               handleEnded(handlePause([hook EXCEPT !.element.paused = TRUE]),
                           closure))

\* a live timer fires scheduleBeat
DemoTimer ==
    \E id \in timers :
        Handled("scheduleBeat",
                [hook EXCEPT !.lastBeat = [timer |-> id, demo |-> isDemoMode]])

\* React renders the hook after isDemoMode changed: the listeners are
\* registered again and capture the state of this render
Commit ==
    /\ closure.isDemoMode # isDemoMode
    /\ closure' = [isDemoMode |-> isDemoMode, playlist |-> playlist,
                   currentId |-> currentId]
    /\ handler' = "render"
    /\ UNCHANGED <<detectorVars, splitterVars, featureVars, sceneVars, appVars,
                   playerVars, particleVars, playlist, currentId, issued,
                   element, timers, demoIntervalRef, lastBeat>>

AddToPlaylist ==
    /\ issued < MaxTracks
    /\ Handled("addToPlaylist", addToPlaylist(hook, closure.isDemoMode))

RemoveFromPlaylist ==
    \E i \in 1..Len(playlist) :
        Handled("removeFromPlaylist", removeFromPlaylist(hook, playlist[i]))

ClearPlaylist ==
    \E after \in {clearPlaylist(hook)} : Handled("clearPlaylist", after)

\* the Next button, with the playlist and the current track of the latest
\* render
PlayNext ==
    \E after \in {playNext(hook, playlist, currentId, closure.isDemoMode)} :
        Handled("playNext", after)

\* the Previous button
PlayPrevious ==
    \E after \in {playPrevious(hook, playlist, currentId, closure.isDemoMode)} :
        Handled("playPrevious", after)

InitPlayer ==
    /\ NewDetector
    /\ frequencyData = <<>>
    /\ timeDomainData = <<>>
    /\ bands = NoBands
    /\ features = NoFeatures
    /\ NewScene
    /\ NewApp
    /\ NewPlayer
    /\ NoParticles
    /\ NoMedia

NextPlayer ==
    \/ PressKeyD \/ PressDemoButton \/ PlayCommand \/ PauseCommand
    \/ StopCommand \/ MediaEvent \/ TrackEnds \/ DemoTimer \/ Commit
    \/ AddToPlaylist \/ RemoveFromPlaylist \/ ClearPlaylist
    \/ PlayNext \/ PlayPrevious

SpecPlayer == InitPlayer /\ [][NextPlayer]_vars

NextViewport == SetVisualizerType \/ Update \/ Render \/ HandleResize

SpecViewport == InitViewport /\ [][NextViewport]_vars

----------------------------------------------------------------------------
(* Properties of the beat detector *)

Least(a, b) == IF a <= b THEN a ELSE b
Greatest(a, b) == IF a >= b THEN a ELSE b

Called == lastFrame.op = "analyzeBeat"

\* the composite energy of the latest frame, from its band values
composite == 6 * lastFrame.audioData.bass + 3 * lastFrame.audioData.mids
             + lastFrame.audioData.highs

\* the beats flagged before the latest frame, and the time of the latest of
\* them (the detector counts from 0 while there is none)
earlier == IF Called /\ result.isBeat THEN SubSeq(flagged, 1, Len(flagged) - 1)
           ELSE flagged
earlierBeat == IF earlier = <<>> THEN 0 ELSE earlier[Len(earlier)]

aboveBaseline == 10 * composite * Len(energyHistory) > 13 * SumSeq(energyHistory)
aboveFloor == 100 * composite > 15 * EnergyUnit
afterDebounce == lastFrame.now - earlierBeat > 200

\* C1: no two beats flagged by analyzeBeat since the detector was constructed
\* or reset have timestamps within 200 ms of each other
DebounceInvariant ==
    \A i, j \in 1..Len(flagged) : i < j => flagged[j] - flagged[i] > 200

\* a frame over both energy thresholds exactly 200 ms after the second beat
\* is not flagged
DebounceWitness ==
    /\ Called /\ Len(flagged) >= 2 /\ ~result.isBeat
    /\ aboveBaseline /\ aboveFloor
    /\ lastFrame.now - flagged[Len(flagged)] = 200

\* C2: a frame is flagged exactly when its composite energy is over 1.3 times
\* the mean of the window that already holds it, over 0.15, and more than
\* 200 ms after the last flagged beat
BeatRule ==
    Called =>
        /\ energyHistory[Len(energyHistory)] = composite
        /\ result.isBeat <=> (aboveBaseline /\ aboveFloor /\ afterDebounce)

\* a frame over the baseline and past the debounce, unflagged for being
\* under the floor alone
BeatRuleWitness ==
    /\ Called /\ ~result.isBeat /\ aboveBaseline /\ ~aboveFloor /\ afterDebounce
    /\ composite > 0 /\ Len(energyHistory) >= 2

\* C3: the energy window holds at most 43 entries, as many as there were
\* frames up to 43; each frame appends its energy and evicts the oldest
\* entry of a full window
EnergyWindow ==
    /\ Len(energyHistory) <= 43
    /\ Len(energyHistory) = Least(frames, 43)
    /\ Called =>
          LET old == lastFrame.before.energyHistory
          IN  energyHistory =
                  (IF Len(old) = 43 THEN SubSeq(old, 2, 43) ELSE old)
                      \o <<composite>>

\* a frame on a full window whose oldest entry differs from the next
EnergyWindowWitness ==
    /\ Called /\ frames > 43
    /\ Len(lastFrame.before.energyHistory) = 43
    /\ lastFrame.before.energyHistory[1] # lastFrame.before.energyHistory[2]
    /\ composite # lastFrame.before.energyHistory[1]

\* C4: the beat history holds at most 10 timestamps; a frame appends its
\* timestamp only when flagged, evicting the oldest of 10
BeatWindow ==
    /\ Len(beatHistory) <= 10
    /\ Called =>
          LET old == lastFrame.before.beatHistory
          IN  beatHistory =
                  IF result.isBeat
                  THEN (IF Len(old) = 10 THEN SubSeq(old, 2, 10) ELSE old)
                           \o <<lastFrame.now>>
                  ELSE old

\* the eleventh beat and later ones
BeatWindowWitness ==
    /\ Called /\ result.isBeat /\ Len(flagged) > 10
    /\ Len(lastFrame.before.beatHistory) = 10

\* the sum of the consecutive intervals of the recorded beats
intervals == SumSeq([i \in 1..(Len(beatHistory) - 1) |->
                        beatHistory[i + 1] - beatHistory[i]])

\* twice 60000 over the mean of the consecutive intervals, as a quotient
\* twiceNum / intervals
twiceNum == 2 * 60000 * (Len(beatHistory) - 1)

\* C5: bpm is 0 with fewer than 3 recorded beats, and otherwise 60000 over
\* the mean interval, rounded (half up) and clamped to [60, 200]: the
\* rounding is bpm itself inside the range, at least 200 when bpm is 200 and
\* at most 60 when bpm is 60
TempoEstimate ==
    Called =>
        /\ result.bpm = 0 \/ result.bpm \in 60..200
        /\ Len(beatHistory) < 3 => result.bpm = 0
        /\ Len(beatHistory) >= 3 =>
              /\ intervals > 0
              /\ result.bpm \in 60..200
              /\ result.bpm > 60 => (2 * result.bpm - 1) * intervals <= twiceNum
              /\ result.bpm < 200 => twiceNum < (2 * result.bpm + 1) * intervals

\* a tempo strictly inside the range that is rounded up
TempoEstimateWitness ==
    /\ Called /\ Len(beatHistory) >= 3
    /\ result.bpm \in 61..199
    /\ result.bpm * intervals > 60000 * (Len(beatHistory) - 1)

\* C7: reset() leaves the fields of a new FFTAnalyzer, and from then on the
\* analyzer and a newly constructed one return the same results frame by frame
ResetRestores ==
    /\ lastFrame.op = "reset" => this = NewAnalyzer
    /\ wasReset => this = fresh /\ result = freshResult

\* a beat flagged after a reset() that cleared recorded beats
ResetWitness ==
    /\ wasReset /\ Called /\ result.isBeat /\ frames >= 2
    /\ discarded.beatHistory # <<>>
    /\ lastFrame.now - discarded.lastBeatTime <= 200

\* C6: fed one transient every 500 ms at the frame cadence, the detector has
\* recorded 3 beats once 5 periods have passed, and from the third recorded
\* beat on every bpm it returns is within 2 of 120
TempoConverges ==
    /\ Len(beatHistory) >= 3 => result.bpm \in 118..122
    /\ totalFrames * signal.cadence >= 5 * 500 => Len(beatHistory) >= 3

\* after 5 periods, a tempo off 120 by the sampling of the transients
TempoConvergesWitness ==
    /\ signal.period = 500
    /\ totalFrames * signal.cadence >= 5 * 500
    /\ Len(beatHistory) >= 5
    /\ result.bpm \in 118..122 /\ result.bpm # 120

\* the baseline of the latest frame, the mean of the window, and the
\* greater of it and 0.01, as quotients in units of 1 / EnergyUnit
baseline == [n |-> SumSeq(energyHistory), d |-> Len(energyHistory)]
flooredBaseline ==
    IF baseline.n * 100 >= intensityFloorHundredths * EnergyUnit * baseline.d
    THEN baseline
    ELSE [n |-> intensityFloorHundredths * EnergyUnit, d |-> 100]

\* C25: on every frame beatIntensity is the composite energy over the
\* greater of the baseline and 0.01: a finite number that is not negative
IntensityIsFloored ==
    Called =>
        /\ result.beatIntensity.d > 0
        /\ result.beatIntensity.n >= 0
        /\ result.beatIntensity.n = composite * flooredBaseline.d
        /\ result.beatIntensity.d = flooredBaseline.n

\* a frame whose window holds zeros only, so that the baseline is 0
IntensityWitness ==
    /\ Called /\ Len(energyHistory) >= 2
    /\ baseline.n = 0
    /\ result.beatIntensity.n = 0 /\ result.beatIntensity.d > 0

----------------------------------------------------------------------------
(* Properties of the band splitters *)

Split == bands.by # "none"

\* the bin indices lo .. hi - 1 of the frame
Bins(lo, hi) == {i \in 0..(Len(frequencyData) - 1) : lo <= i /\ i < hi}

RECURSIVE Magnitude(_)
Magnitude(bins) ==
    IF bins = {} THEN 0
    ELSE LET i == CHOOSE b \in bins : TRUE
         IN  frequencyData[i + 1] + Magnitude(bins \ {i})

BassBins == Bins(0, Len(frequencyData) \div 8)
MidsBins == Bins(Len(frequencyData) \div 8, Len(frequencyData) \div 2)
HighsBins == Bins(Len(frequencyData) \div 2, Len(frequencyData))

\* value is the magnitudes of bins summed, over their number times 255
Normalized(value, bins) ==
    bins # {} => value = [n |-> Magnitude(bins), d |-> Cardinality(bins) * 255]

IsZero(value) == value.n = 0 /\ value.d > 0

\* C8: each band is the sum of the magnitudes of its bins - [0, N/8),
\* [N/8, N/2), [N/2, N) - over its width times 255, the average is the sum of
\* all bins over N times 255, and every bin is counted in exactly one band
BandPartition ==
    Split =>
        /\ Normalized(bands.out.bass, BassBins)
        /\ Normalized(bands.out.mids, MidsBins)
        /\ Normalized(bands.out.highs, HighsBins)
        /\ Normalized(bands.out.average, Bins(0, Len(frequencyData)))
        /\ bands.out.bass.n + bands.out.mids.n + bands.out.highs.n
               = Magnitude(Bins(0, Len(frequencyData)))

\* a frame whose three bands are all wide and hold different sums
BandPartitionWitness ==
    /\ Split /\ Len(frequencyData) >= 8
    /\ 0 < bands.out.bass.n
    /\ bands.out.bass.n < bands.out.mids.n
    /\ bands.out.mids.n < bands.out.highs.n

\* C9: a band of zero width is returned as 0
ZeroWidthBandIsZero ==
    Split =>
        /\ BassBins = {} => IsZero(bands.out.bass)
        /\ MidsBins = {} => IsZero(bands.out.mids)
        /\ HighsBins = {} => IsZero(bands.out.highs)

\* C10: an all-zero frame of any length gives bass = mids = highs = average = 0
AllZeroFrameIsZero ==
    (Split /\ \A i \in 1..Len(frequencyData) : frequencyData[i] = 0) =>
        /\ IsZero(bands.out.bass)
        /\ IsZero(bands.out.mids)
        /\ IsZero(bands.out.highs)
        /\ IsZero(bands.out.average)

IsOne(value) == value.d > 0 /\ value.n = value.d

AllMax == \A i \in 1..Len(frequencyData) : frequencyData[i] = MaxByte

\* C11: a frame whose every bin is 255, of a length that gives every band at
\* least one bin, gives bass = mids = highs = average = 1.0
AllMaxFrameIsOne ==
    (Split /\ AllMax /\ Len(frequencyData) >= 8) =>
        /\ IsOne(bands.out.bass)
        /\ IsOne(bands.out.mids)
        /\ IsOne(bands.out.highs)
        /\ IsOne(bands.out.average)

\* the single-loop splitter has split an all-255 frame of odd length
AllMaxFrameWitness ==
    /\ bands.by = "AudioContextManager" /\ AllMax
    /\ Len(frequencyData) >= 8 /\ Len(frequencyData) % 2 = 1
    /\ IsOne(bands.out.bass) /\ IsOne(bands.out.highs)

----------------------------------------------------------------------------
(* Properties of the spectral features *)

RolledOff == features.by = "getSpectralRolloff"

AllZero == \A i \in 1..Len(frequencyData) : frequencyData[i] = 0

\* the magnitudes of bins 0 .. i reach the percentage of the total
Reached(i) ==
    Magnitude(Bins(0, i + 1)) * 100
        >= Magnitude(Bins(0, Len(frequencyData))) * features.percentage

\* the positions at which the threshold is reached
ReachedAt == {i \in 0..(Len(frequencyData) - 1) : Reached(i)}

\* value is the fraction i / N of the frame
IsFraction(value, i) ==
    value.d > 0 /\ value.n * Len(frequencyData) = i * value.d

\* C12: the rolloff is the smallest position i / N at which the cumulative
\* magnitude reaches percentage x total, and 1 where the threshold is never
\* reached, which is the case of every all-zero frame
RolloffIsSmallestPosition ==
    RolledOff =>
        IF AllZero \/ ReachedAt = {}
        THEN IsOne(features.out)
        ELSE \E i \in ReachedAt :
                 /\ \A j \in ReachedAt : i <= j
                 /\ IsFraction(features.out, i)

Increasing ==
    \A i \in 1..(Len(frequencyData) - 1) : frequencyData[i] < frequencyData[i + 1]

\* all the energy of the frame lies in its first half
EarlyBins ==
    /\ ~AllZero
    /\ \A i \in 1..Len(frequencyData) :
           2 * (i - 1) >= Len(frequencyData) => frequencyData[i] = 0

\* C13: with percentage 1.0 the rolloff of a non-zero frame of increasing
\* magnitudes is 1, and that of a frame whose energy lies in its early bins
\* is less than 1
FullRolloffIsOne ==
    (RolledOff /\ features.percentage = 100 /\ ~AllZero) =>
        /\ Increasing => IsOne(features.out)
        /\ EarlyBins => features.out.d > 0 /\ features.out.n < features.out.d

IsNumber(value) == value.d > 0

\* C14: no analysis function returns not-a-number; on an empty array the
\* band splitters, the centroid and the zero-crossing rate give 0 and the
\* rolloff gives 1; on zero total energy the centroid is 0 and the rolloff 1
EdgeCasesDegrade ==
    /\ IsNumber(features.out)
    /\ Split =>
           /\ IsNumber(bands.out.bass) /\ IsNumber(bands.out.mids)
           /\ IsNumber(bands.out.highs) /\ IsNumber(bands.out.average)
    /\ (Split /\ frequencyData = <<>>) =>
           /\ IsZero(bands.out.bass) /\ IsZero(bands.out.mids)
           /\ IsZero(bands.out.highs) /\ IsZero(bands.out.average)
    /\ (features.by = "getSpectralCentroid" /\ AllZero) => IsZero(features.out)
    /\ (features.by = "getZeroCrossingRate" /\ timeDomainData = <<>>) =>
           IsZero(features.out)
    /\ (RolledOff /\ AllZero) => IsOne(features.out)

----------------------------------------------------------------------------
(* Properties of the scene *)

\* C15: no per-mode update reads an index outside its array, whatever the
\* length of the arrays of the AudioData
ReadsWithinBounds == lastUpdate.outside = {}

ModeResources == Resources \ Environment

\* C16: the resource of currentType is constructed and visible, and the
\* resource of every other type is null or invisible, in every state an
\* update or a render can find the scene in
ExactlyOneActive ==
    \A name \in ModeResources :
        IF typeOf(name) = currentType
        THEN resources[name].object # 0 /\ resources[name].visible
        ELSE resources[name].object = 0 \/ ~resources[name].visible

\* an update has drawn a mode selected after the bars were hidden
ExactlyOneActiveWitness ==
    /\ currentType = "ambience" /\ lastUpdate.path = "updateAmbience"
    /\ resources["ambiencePlane"].visible
    /\ resources["bars"].object # 0 /\ ~resources["bars"].visible

\* C17: every resource is constructed at most once, and the object of a
\* constructed resource is the one constructed first
ConstructedOnce ==
    \A name \in Resources :
        /\ constructions[name] <= 1
        /\ resources[name].object = constructions[name]

\* a mode selected again after its resource was constructed in an earlier call
ConstructedOnceWitness ==
    /\ currentType = "waveform"
    /\ constructedFor["waveformLine"] = "battery"
    /\ constructions["waveformLine"] = 1
    /\ resources["waveformLine"].visible

\* C18: no resource but those of the default mode is constructed before its
\* mode is selected: each is constructed by the call that selects its mode
ConstructedOnFirstUse ==
    \A name \in LazyResources :
        resources[name].object # 0 => constructedFor[name] = typeOf(name)

\* C19: an update takes the idle path exactly when it is given no AudioData,
\* takes the method of the current type otherwise, and leaves the current
\* type and the resources as they are
IdlePathIffNoAudioData ==
    [][(time' # time \/ lastUpdate' # lastUpdate) =>
          /\ (lastUpdate'.path = "updateIdle") <=> ~lastUpdate'.present
          /\ lastUpdate'.present => lastUpdate'.path = methodOf(currentType)
          /\ currentType' = currentType
          /\ resources' = resources]_vars

\* a first AudioData, with empty arrays, drawn by the method of the mode
IdlePathWitness ==
    /\ lastUpdate.present /\ Len(frequencyData) = 0
    /\ lastUpdate.path = "updateTunnel" /\ currentType = "tunnel"

\* C20: an idle update after a positive time writes, from the scene time
\* alone, the parameters of a resource that is visible
IdleFrameAnimates ==
    [][(time' > time /\ lastUpdate'.path = "updateIdle") =>
          \E w \in lastUpdate'.written :
              /\ resources'[w.name].visible
              /\ w.data \in {"time", "idleData"}]_vars

\* idle frames in a mode whose own resource updateIdle leaves alone, and in
\* a mode whose uniforms it writes
IdleFrameWitness ==
    /\ lastUpdate.path = "updateIdle" /\ lastUpdate.delta > 0
    /\ lastUpdate.type = "battery" /\ currentType = "battery"
    /\ \E w \in lastUpdate.written : w.name = "batteryPlane"

----------------------------------------------------------------------------
(* Further properties of the spectral features *)

\* the magnitudes of bins, each weighted by its index
RECURSIVE Weighted(_)
Weighted(bins) ==
    IF bins = {} THEN 0
    ELSE LET i == CHOOSE b \in bins : TRUE
         IN  i * frequencyData[i + 1] + Weighted(bins \ {i})

AllBins == Bins(0, Len(frequencyData))

\* C26: the centroid is the sum of i x magnitude[i] over the sum of the
\* magnitudes, a bin position from 0 to N - 1, and 0 when that sum is 0
CentroidIsWeightedMean ==
    features.by = "getSpectralCentroid" =>
        IF Magnitude(AllBins) = 0
        THEN IsZero(features.out)
        ELSE /\ features.out.d > 0
             /\ features.out.n * Magnitude(AllBins)
                    = Weighted(AllBins) * features.out.d
             /\ 0 <= features.out.n
             /\ features.out.n <= (Len(frequencyData) - 1) * features.out.d

\* a centroid between two bins, away from both ends of the frame
CentroidWitness ==
    /\ features.by = "getSpectralCentroid" /\ features.out.d > 0
    /\ features.out.n > features.out.d
    /\ features.out.n < 2 * features.out.d
    /\ Len(frequencyData) >= 4 /\ frequencyData[1] > 0

\* the pairs of consecutive samples on opposite sides of the center: one
\* below it, the other at or above it
CrossingPairs ==
    {i \in 1..(Len(timeDomainData) - 1) :
        (timeDomainData[i] < center) # (timeDomainData[i + 1] < center)}

\* C27: the zero-crossing rate of a waveform is the number of its crossing
\* pairs over the number of its samples
RateIsCrossingsPerSample ==
    (features.by = "getZeroCrossingRate" /\ Len(timeDomainData) > 0) =>
        /\ features.out.d > 0
        /\ features.out.n * Len(timeDomainData)
               = Cardinality(CrossingPairs) * features.out.d

\* a waveform that goes from just below the center to the center and back
RateWitness ==
    /\ features.by = "getZeroCrossingRate" /\ Len(timeDomainData) >= 4
    /\ timeDomainData[1] = center - 1 /\ timeDomainData[2] = center
    /\ timeDomainData[3] = center - 1
    /\ Cardinality(CrossingPairs) = 2
    /\ features.out.n * Len(timeDomainData) = 2 * features.out.d

-----------------------------------------------------------------------------
(* Purity of the spectral features *)

\* C28: getSpectralCentroid, getSpectralRolloff and getZeroCrossingRate are
\* pure.  However often and in whatever order they are called between
\* analyzeBeat calls, the analyzer's energy history, beat history and
\* last-beat timestamp are those of a twin analyzer that got the same
\* analyzeBeat calls and no feature call, every analyzeBeat result is the
\* twin's result, and the band splitter still yields the bands of the
\* spectrum it was given.
FeaturesArePure ==
    /\ this = fresh
    /\ result = freshResult
    /\ bands.by = "AudioContextManager" => bands.out = calculateBands(frequencyData)

\* A feature function was called after the first analyzeBeat call, two more
\* analyzeBeat calls followed, the latest of them found a beat, and the
\* bands have been split.
PureWitness ==
    /\ features.by = "getSpectralRolloff" /\ features.after = 1
    /\ totalFrames = PureCalls /\ Called /\ result.isBeat
    /\ bands.by = "AudioContextManager" /\ frequencyData # <<>>

-----------------------------------------------------------------------------
(* Properties of the scene's frame and resize calls *)

Visibility == [name \in Resources |-> resources[name].visible]

\* C23: The current mode changes only through setVisualizerType: no update,
\* with or without AudioData, no render and no resize changes currentType or
\* the visibility of any resource.
ModeChangesOnlyBySetVisualizerType ==
    [][(currentType' # currentType \/ Visibility' # Visibility)
           => SetVisualizerType]_vars

\* An audio-driven update, a render and a resize have all happened in tunnel
\* mode, and the mode is still tunnel.
ModeKeptWitness ==
    /\ currentType = "tunnel" /\ Visibility["tunnel"]
    /\ lastUpdate.present /\ lastUpdate.type = "tunnel"
    /\ canvas.drawn /\ canvas.type = "tunnel"
    /\ viewport.renderer = <<3, 4>> /\ canvas.size = <<3, 4>>

\* C24: A resize changes only the camera aspect, the projection matrix and
\* the renderer and composer size, all four to the container's size; the
\* mode, the scene time, the resources with their visibility, the camera
\* position and what the latest update wrote stay as they were.
ResizeChangesOnlyProjection ==
    [][viewport' # viewport =>
           /\ currentType' = currentType
           /\ time' = time
           /\ resources' = resources
           /\ camera' = camera
           /\ lastUpdate' = lastUpdate
           /\ \E size \in Sizes : viewport' = sized(size[1], size[2])]_vars

\* The container was resized after an audio-driven update in waveform mode
\* at a scene time above zero.
ResizedWitness ==
    /\ viewport.renderer = <<3, 4>> /\ viewport.composer = <<3, 4>>
    /\ viewport.aspect = quotient(3, 4) /\ viewport.projection = quotient(3, 4)
    /\ currentType = "waveform" /\ time > 0
    /\ lastUpdate.present /\ lastUpdate.path = "updateWaveform"

-----------------------------------------------------------------------------
(* Properties of the mode controls *)

\* C30: Pressing the Visualizer's mode button cycles through the visual
\* styles: from any current type, once the button has been pressed as often
\* as there are types, every VisualizerType has been seen and the starting
\* type has come back.
ModeButtonVisitsEveryMode ==
    presses.button >= Cardinality(VisualizerTypes) =>
        /\ visited = VisualizerTypes
        /\ presses.returned

-----------------------------------------------------------------------------
(* Properties of the two animation loops *)

\* C21: Each display-refresh tick runs band splitting, then beat detection
\* on that frame's features, then the visualizer update, then render, each
\* exactly once and in that order.
TickRunsPipelineInOrder ==
    ticks > 0 =>
        lastTick.log = <<"calculateBands", "analyzeBeat", "update", "render">>

\* C22: Once the audio loop has published a frame, every animation tick
\* hands update the most recently published AudioData, never an older frame
\* and never the null of the render that created the loop.
TickUsesLatestFrame ==
    (ticks > 0 /\ lastTick.before # 0) => lastTick.used = lastTick.before

\* C29: A tick publishes a new AudioData frame if and only if the audio
\* context is ready and state.isPlaying is true; a tick while playback is
\* paused or stopped leaves the published audioData unchanged, splits no
\* bands and brings no new frame to the visualizer's ref.
TickPublishesIffPlaying ==
    [][ticks' # ticks =>
           /\ (published' # published) <=> (isReady /\ isPlaying)
           /\ ~(isReady /\ isPlaying) =>
                  /\ bands' = bands
                  /\ audioDataRef' = audioDataRef]_vars

\* Playback was paused with a frame published, and a tick since then has
\* left that frame in place.
PausedWitness ==
    /\ isReady /\ ~isPlaying /\ currentTrack = "demo"
    /\ published # 0 /\ lastTick.before = published
    /\ lastTick.log = <<"update", "render">>
    /\ ticks > published

-----------------------------------------------------------------------------
(* Further properties of the beat detector *)

\* C33: In every detector state the beat history is strictly increasing with
\* every consecutive gap above 200 ms, and lastBeatTime is the last entry of
\* the beat history, or 0 when the history is empty; a frame that is not
\* flagged as a beat leaves both as they were.
BeatHistoryOrdered ==
    /\ \A i \in 1..(Len(beatHistory) - 1) :
           beatHistory[i + 1] - beatHistory[i] > minBeatInterval
    /\ lastBeatTime = IF beatHistory = <<>> THEN 0
                      ELSE beatHistory[Len(beatHistory)]
    /\ (Called /\ ~result.isBeat) =>
           /\ beatHistory = lastFrame.before.beatHistory
           /\ lastBeatTime = lastFrame.before.lastBeatTime

\* A frame without a beat has followed a full beat history.
BeatHistoryWitness ==
    /\ Called /\ ~result.isBeat
    /\ Len(beatHistory) = beatHistorySize
    /\ clock > lastBeatTime

Constant(window) == \A i \in 1..Len(window) : window[i] = window[1]

\* C34: analyzeBeat never flags a beat on the first frame after construction
\* or reset(), and never on a frame whose energy window, the frame's own
\* energy included, holds one value throughout, whatever that value and the
\* timestamps.
NoBeatOnFirstOrConstant ==
    (Called /\ (frames = 1 \/ Constant(energyHistory))) => ~result.isBeat

\* A run of loud frames of one energy has filled the window after a reset,
\* and the latest came more than 200 ms after time 0.
ConstantWitness ==
    /\ Called /\ wasReset /\ lastFrame.audioData = Loud
    /\ Len(energyHistory) = historySize /\ Constant(energyHistory)
    /\ lastFrame.now - lastFrame.before.lastBeatTime > minBeatInterval

\* C35: Once analyzeBeat has returned a bpm other than 0, every later call
\* before a reset() returns a bpm from 60 to 200, also when no beat arrives
\* any more.
TempoIsKept ==
    [][(result.bpm # 0 /\ lastFrame'.op = "analyzeBeat")
           => (result'.bpm >= minBpm /\ result'.bpm <= maxBpm)]_vars

\* A tempo is still reported three frames and more than a second after the
\* last beat.
TempoKeptWitness ==
    /\ Called /\ ~result.isBeat /\ result.bpm # 0
    /\ totalFrames = FadeFrames
    /\ clock - lastBeatTime > 1000
    /\ lastFrame.before.lastBeatTime = lastBeatTime

\* C36: With band values that are not negative beatIntensity never exceeds
\* the history capacity of 43.
IntensityWithinCapacity ==
    Called => result.beatIntensity.n <= historySize * result.beatIntensity.d

\* The window is full and the frame's energy is more than one and a half
\* times its mean.
IntensityCapacityWitness ==
    /\ Called /\ Len(energyHistory) = historySize
    /\ result.beatIntensity.d > 0
    /\ 2 * result.beatIntensity.n > 3 * result.beatIntensity.d

-----------------------------------------------------------------------------
(* Equivalence of the band splitters *)

\* C32: For every frequency frame the three band splitters -
\* AudioProcessor.calculateFrequencyBands with calculateAverage,
\* AudioContextManager.calculateBands and the demo branch of updateAudioData -
\* return the same bass, mids, highs and average: whichever of them split
\* the frame, its output is the output of each of the three.
SplittersAgree ==
    Split =>
        /\ bands.out = processorBands(frequencyData)
        /\ bands.out = calculateBands(frequencyData)
        /\ bands.out = demoBands(frequencyData)

\* AudioProcessor has split a frame of odd length whose bands are all wide
\* and all differ.
SplittersAgreeWitness ==
    /\ bands.by = "AudioProcessor"
    /\ Len(frequencyData) >= 8 /\ Len(frequencyData) % 2 = 1
    /\ frequencyData[1] > 0
    /\ bands.out.bass.n * bands.out.mids.d > bands.out.mids.n * bands.out.bass.d
    /\ bands.out.mids.n * bands.out.highs.d > bands.out.highs.n * bands.out.mids.d
    /\ bands.out.highs.n > 0

-----------------------------------------------------------------------------
(* Properties of the particles *)

\* C31: After any sequence of updateParticles calls with non-empty frequency
\* frames every particle's Y coordinate lies in [-25, 25]: a particle that
\* drifts out of that range gets a new Y inside it within the same update.
ParticlesStayInRange ==
    frequencyData # <<>> =>
        \A i \in 1..Len(positionsY) :
            /\ positionsY[i] >= -(halfRange * PositionUnit)
            /\ positionsY[i] <= halfRange * PositionUnit

\* On the all-255 frame, where every step is upward, an update has left the
\* first particle at the largest new Y: it had drifted above 25 and was given
\* a new Y in the same update; the second particle has gone on drifting.
ParticlesWitness ==
    /\ frequencyData = <<MaxByte>> /\ tracked >= 2 /\ Len(positionsY) >= 2
    /\ lastUpdate.path = "updateParticles" /\ time >= 2
    /\ positionsY[1] = seed(PositionUnit - 1)
    /\ positionsY[2] \notin Seeds

----------------------------------------------------------------------------
(* Properties of the player *)

\* C37: while demo mode is active, state.isPlaying changes only in the play,
\* pause, stop and stopDemo commands; no listener of the audio element, and
\* nothing else, changes it.
DemoPlayingChangesOnlyByCommand ==
    [][(isDemoMode /\ isPlaying' # isPlaying) =>
           handler' \in {"play", "pause", "stop", "stopDemo"}]_vars

\* C38: at most one demo timer is live, and no timer schedules a beat while
\* the demo is stopped.
OneDemoTimer ==
    /\ Cardinality(timers) <= 1
    /\ lastBeat.timer # 0 => lastBeat.demo

\* C39: a current track that is a file is a member of the playlist.
CurrentTrackInPlaylist ==
    currentTrack = "file" => \E i \in 1..Len(playlist) : playlist[i] = currentId

=============================================================================
